---- MODULE Spec2Model ----
(***************************************************************************)
(* A model of tap-xero: the pagination strategies of streams.py, the       *)
(* authenticators of auth.py, the configuration schema of tap.py, and the  *)
(* authenticator selection, response classification, retry and date        *)
(* normalisation of client.py.                                             *)
(*                                                                         *)
(* Python values are modelled as follows.  A str is a sequence of          *)
(* one-character strings, so that replace, split, "in" and regular         *)
(* expression matching are computed and not assumed.  An Optional value is *)
(* None (the empty tuple) or Some(v) (a one-element tuple).  A dict is a   *)
(* function from its keys.  A list is a sequence.                          *)
(***************************************************************************)
EXTENDS Integers, Sequences, FiniteSets, TLC

None == <<>>
Some(v) == <<v>>

\* Python truthiness of an Optional[int]: None and 0 are falsy.
TruthyInt(o) == o # None /\ o[1] # 0

\* Python truthiness of an Optional[str]: None and "" are falsy.
TruthyStr(o) == o # None /\ Len(o[1]) > 0

\* dict.get(key, default)
DictGet(d, k, default) == IF k \in DOMAIN d THEN d[k] ELSE default

\* str.replace(old, new) for a one-character old and a string new.
RECURSIVE StrReplace(_, _, _)
StrReplace(s, old, new) ==
    IF s = <<>> THEN <<>>
    ELSE (IF Head(s) = old THEN new ELSE <<Head(s)>>) \o StrReplace(Tail(s), old, new)

\* str.split(sep)[0] for a one-character sep: the text before the first sep.
SplitFirst(s, sep) ==
    LET hits == {i \in 1..Len(s) : s[i] = sep}
    IN  IF hits = {} THEN s
        ELSE SubSeq(s, 1, (CHOOSE i \in hits : \A j \in hits : i <= j) - 1)

\* max() of a non-empty sequence of integers.
MaxOf(xs) == CHOOSE m \in {xs[i] : i \in 1..Len(xs)} : \A i \in 1..Len(xs) : xs[i] <= m

\* s[i..] starts with the text p.
StartsWithAt(s, i, p) ==
    /\ i + Len(p) - 1 <= Len(s)
    /\ \A k \in 1..Len(p) : s[i + k - 1] = p[k]

\* "sub in s"
Contains(s, sub) == \E i \in 1..Len(s) : StartsWithAt(s, i, sub)


(***************************************************************************)
(* Stream descriptors (streams.py).                                        *)
(***************************************************************************)
page_size == 100

BankTransactionsStream ==
    [kind |-> "Paginated",
     name |-> <<"b","a","n","k","_","t","r","a","n","s","a","c","t","i","o","n","s">>,
     path |-> <<"/","B","a","n","k","T","r","a","n","s","a","c","t","i","o","n","s">>,
     replication_key |-> <<"U","p","d","a","t","e","d","D","a","t","e","U","T","C">>,
     supports_order_by |-> TRUE]

InvoicesStream ==
    [kind |-> "Paginated",
     name |-> <<"i","n","v","o","i","c","e","s">>,
     path |-> <<"/","I","n","v","o","i","c","e","s">>,
     replication_key |-> <<"U","p","d","a","t","e","d","D","a","t","e","U","T","C">>,
     supports_order_by |-> TRUE]

ManualJournalsStream ==
    [kind |-> "Paginated",
     name |-> <<"m","a","n","u","a","l","_","j","o","u","r","n","a","l","s">>,
     path |-> <<"/","M","a","n","u","a","l","J","o","u","r","n","a","l","s">>,
     replication_key |-> <<"U","p","d","a","t","e","d","D","a","t","e","U","T","C">>,
     supports_order_by |-> FALSE]

JournalsStream ==
    [kind |-> "JournalSequence",
     name |-> <<"j","o","u","r","n","a","l","s">>,
     path |-> <<"/","J","o","u","r","n","a","l","s">>,
     replication_key |-> <<"J","o","u","r","n","a","l","N","u","m","b","e","r">>,
     supports_order_by |-> FALSE]

AccountsStream ==
    [kind |-> "Bookmarked",
     name |-> <<"a","c","c","o","u","n","t","s">>,
     path |-> <<"/","A","c","c","o","u","n","t","s">>,
     replication_key |-> <<"U","p","d","a","t","e","d","D","a","t","e","U","T","C">>,
     supports_order_by |-> FALSE]

\* A FullTableStream: it declares no replication_key.
BrandingThemesStream ==
    [kind |-> "FullTable",
     name |-> <<"b","r","a","n","d","i","n","g","_","t","h","e","m","e","s">>,
     path |-> <<"/","B","r","a","n","d","i","n","g","T","h","e","m","e","s">>,
     replication_key |-> None,
     supports_order_by |-> FALSE]

PaginatedStreams == {BankTransactionsStream, InvoicesStream, ManualJournalsStream}
BookmarkedStreams == {AccountsStream}
FullTableStreams == {BrandingThemesStream}
Streams ==
    PaginatedStreams \cup BookmarkedStreams \cup FullTableStreams \cup {JournalsStream}

\* The top-level key under which the API returns a stream's records: the
\* endpoint's path without its leading slash ("/Journals" -> "Journals").
ApiKey(s) == Tail(s.path)

JournalsKey == <<"J","o","u","r","n","a","l","s">>


(***************************************************************************)
(* State.                                                                  *)
(***************************************************************************)
VARIABLES
    pc,               \* position of the operation in progress
    stream,           \* the stream being synced, or called upon
    bookmark,         \* get_starting_replication_key_value(context): Optional
    upstream,         \* the records the API holds for the stream
    next_page_token,  \* the paginator's current value (previous_token of a call)
    responses,        \* the decoded bodies, response.json(), received so far
    requests,         \* the query parameters of the requests sent so far
    returned,         \* the value returned by the pure function called last
    credentials,      \* config["oauth_credentials"]
    refresh_token,    \* the authenticator's _refresh_token (direct mode)
    access_token,     \* the authenticator's access_token
    expires_in,       \* the authenticator's expires_in
    last_refreshed,   \* the authenticator's last_refreshed
    now,              \* utc_now(), in seconds
    provider,         \* the token endpoint: tokens issued, refresh token it accepts
    token_calls,      \* the refresh requests sent and the responses received
    worker,           \* each caller of the authenticator: position and locals
    prepared,         \* the prepared request of the send in progress
    tries,            \* the calls the retry loop has made for this send
    attempts,         \* the attempts of this send: what was sent, what came back
    failure,          \* the exception that ended the send, if one did
    record,           \* the record handed to transform_dotnet_dates
    memory,           \* the objects of that call: the record's, then the new ones
    config,           \* the configuration the tap is constructed with
    stream_state,     \* per stream: its bookmark and its progress marker
    yielded,          \* the records handed to the sink so far
    pending,          \* the selected streams of the run still to be synced
    request_headers,  \* the headers of the requests, in the order of requests
    single_instance,  \* per authenticator class: the instance it has made
    authenticators,   \* per stream built: its credentials and its authenticator
    waits             \* the nominal waits of the retry loop, in seconds

syncVars == <<stream, bookmark, upstream, next_page_token, responses, requests>>

authVars == <<credentials, refresh_token, access_token, expires_in, last_refreshed,
              now, provider, token_calls, worker>>

sendVars == <<prepared, tries, attempts, failure, waits>>

runVars == <<stream_state, yielded, pending, request_headers>>

instVars == <<single_instance, authenticators>>

vars == <<pc, returned, syncVars, authVars, sendVars, record, memory, config, runVars, instVars>>

\* What an operation on one part of the state leaves alone.
allButSync == <<authVars, sendVars, record, memory, config, instVars>>
allButAuth == <<returned, syncVars, sendVars, record, memory, config, runVars, instVars>>
allButSend == <<returned, syncVars, record, memory, config, runVars, instVars>>
allButRecord == <<syncVars, authVars, sendVars, config, runVars, instVars>>
allButConfig == <<syncVars, sendVars, record, memory, runVars, instVars>>
allButInst == <<returned, syncVars, authVars, sendVars, record, memory, config, runVars>>

\* The pagination state of a model that syncs no stream.
SyncIdle ==
    /\ stream = None
    /\ bookmark = None
    /\ upstream = <<>>
    /\ next_page_token = None
    /\ responses = <<>>
    /\ requests = <<>>
    /\ stream_state = None
    /\ yielded = <<>>
    /\ pending = <<>>
    /\ request_headers = <<>>

\* The authenticator classes of a model that builds no stream.
InstIdle ==
    /\ single_instance = None
    /\ authenticators = <<>>

\* The authenticator state of a model that asks for no token.
AuthIdle ==
    /\ credentials = None
    /\ refresh_token = None
    /\ access_token = None
    /\ expires_in = None
    /\ last_refreshed = None
    /\ now = 0
    /\ provider = None
    /\ token_calls = <<>>
    /\ worker = <<>>

\* The request state of a model that sends nothing.
SendIdle ==
    /\ prepared = None
    /\ tries = 0
    /\ attempts = <<>>
    /\ failure = None
    /\ waits = <<>>

(***************************************************************************)
(* PaginatedStream (streams.py).                                           *)
(***************************************************************************)
\* records_jsonpath: name.replace("_", "") + "[*]"
records_jsonpath(s) == StrReplace(s.name, "_", <<>>) \o <<"[","*","]">>

\* A variant that embeds the bookmark as it is.
WhereClause_raw(s, starting_timestamp) ==
    s.replication_key \o <<">","D","a","t","e","T","i","m","e","(">>
        \o starting_timestamp \o <<")">>

\* The filter expression of the where parameter.
WhereClause(s, starting_timestamp) ==
    s.replication_key \o <<">","D","a","t","e","T","i","m","e","(">>
        \o StrReplace(starting_timestamp, ":", <<"%","3","A">>) \o <<")">>

OrderClause(s) == s.replication_key \o <<" ","A","S","C">>

EmptyParams == [k \in {} |-> None]

\* A dict with the key k when the Optional o holds a value.
Entry(k, o) == IF o = None THEN EmptyParams ELSE k :> o[1]

\* A variant that asks for the order whatever supports_order_by says.
PaginatedStream_get_url_params_ordered(s, starting_timestamp, token) ==
    LET page  == "page" :> (IF TruthyInt(token) THEN token[1] ELSE 1)
        where == IF TruthyStr(starting_timestamp)
                 THEN "where" :> WhereClause(s, starting_timestamp[1])
                 ELSE EmptyParams
    IN  page @@ where @@ ("order" :> OrderClause(s))

PaginatedStream_get_url_params(s, starting_timestamp, token) ==
    LET page  == "page" :> (IF TruthyInt(token) THEN token[1] ELSE 1)
        where == IF TruthyStr(starting_timestamp)
                 THEN "where" :> WhereClause(s, starting_timestamp[1])
                 ELSE EmptyParams
        order == IF s.supports_order_by THEN "order" :> OrderClause(s)
                 ELSE EmptyParams
    IN  page @@ where @@ order

PaginatedStream_get_next_page_token(s, data, previous_token) ==
    LET records == DictGet(data, SplitFirst(records_jsonpath(s), "."), <<>>)
    IN  IF Len(records) >= page_size
        THEN Some((IF TruthyInt(previous_token) THEN previous_token[1] ELSE 1) + 1)
        ELSE None

(***************************************************************************)
(* JournalsStream (streams.py).                                            *)
(***************************************************************************)
\* A variant that leaves the bookmark out of the request.
JournalsStream_get_url_params_no_offset(starting_journal_number, token) ==
    IF TruthyInt(token) THEN "offset" :> token[1] ELSE EmptyParams

JournalsStream_get_url_params(starting_journal_number, token) ==
    IF TruthyInt(starting_journal_number)
    THEN "offset" :> starting_journal_number[1]
    ELSE IF TruthyInt(token) THEN "offset" :> token[1]
    ELSE EmptyParams

\* j.get("JournalNumber", 0)
JournalNumberOf(j) == IF "JournalNumber" \in DOMAIN j THEN j.JournalNumber ELSE 0

\* A variant that takes the number of the last record instead of the maximum.
JournalsStream_get_next_page_token_last(data, previous_token) ==
    LET journals == DictGet(data, JournalsKey, <<>>)
    IN  IF Len(journals) > 0
        THEN Some(JournalNumberOf(journals[Len(journals)]))
        ELSE None

JournalsStream_get_next_page_token(data, previous_token) ==
    LET journals == DictGet(data, JournalsKey, <<>>)
    IN  IF Len(journals) > 0
        THEN Some(MaxOf([i \in 1..Len(journals) |-> JournalNumberOf(journals[i])]))
        ELSE None

\* BookmarkedStream.get_url_params with a page parameter, as PaginatedStream
\* builds its parameters.
BookmarkedStream_get_url_params_paged(s, starting_timestamp) ==
    ("page" :> 1) @@
    (IF TruthyStr(starting_timestamp)
     THEN "where" :> WhereClause(s, starting_timestamp[1])
     ELSE EmptyParams)

BookmarkedStream_get_url_params(s, starting_timestamp) ==
    IF TruthyStr(starting_timestamp)
    THEN "where" :> WhereClause(s, starting_timestamp[1])
    ELSE EmptyParams

\* data.get("Journals", []) yielded record by record.
JournalsStream_parse_response(data) == DictGet(data, JournalsKey, <<>>)

\* A variant that asks for the first page.
FullTableStream_get_url_params_paged == "page" :> 1

\* FullTableStream defines no get_url_params: the base class sends none.
FullTableStream_get_url_params == EmptyParams

get_url_params(s, start, token) ==
    IF s.kind = "JournalSequence" THEN JournalsStream_get_url_params(start, token)
    ELSE IF s.kind = "Bookmarked" THEN BookmarkedStream_get_url_params(s, start)
    ELSE IF s.kind = "FullTable" THEN FullTableStream_get_url_params
    ELSE PaginatedStream_get_url_params(s, start, token)

(***************************************************************************)
(* XeroStream.http_headers (client.py).                                    *)
(***************************************************************************)
\* Truthiness of get_starting_replication_key_value(context): a journal
\* number for the journals, a timestamp for the other streams.
TruthyStart(s, start) ==
    IF s.kind = "JournalSequence" THEN TruthyInt(start) ELSE TruthyStr(start)

http_headers(cfg, s, start) ==
    ("Xero-Tenant-Id" :> cfg["tenant_id"]) @@ ("Accept" :> "application/json")
        @@ (IF "user_agent" \in DOMAIN cfg /\ cfg["user_agent"] # ""
            THEN "User-Agent" :> cfg["user_agent"] ELSE EmptyParams)
        @@ (IF TruthyStart(s, start)
            THEN "If-Modified-Since" :> start[1] ELSE EmptyParams)

get_next_page_token(s, data, previous_token) ==
    IF s.kind = "JournalSequence" THEN JournalsStream_get_next_page_token(data, previous_token)
    ELSE PaginatedStream_get_next_page_token(s, data, previous_token)


(***************************************************************************)
(* The API as the streams see it.                                          *)
(***************************************************************************)
MaxJournal == 9        \* journal numbers run from 1 to MaxJournal
MaxDataset == 4        \* the API holds at most this many journals
UpstreamPageSize == 3  \* the API returns at most this many journals a call

Last(seq) == seq[Len(seq)]

Take(seq, n) == SubSeq(seq, 1, IF Len(seq) < n THEN Len(seq) ELSE n)

Injective(f) == \A i, j \in DOMAIN f : f[i] = f[j] => i = j

\* The journals the API holds, in the order it returns them.
JournalDatasets ==
    {d \in UNION {[1..n -> 1..MaxJournal] : n \in 0..MaxDataset} : Injective(d)}

\* The numbers of records of a paginated stream the API may hold.
PaginatedTotals == {0, 37, page_size - 1, page_size, page_size + 1, 2 * page_size}

Records(from, to) == [i \in 1..(to - from + 1) |-> [id |-> from + i - 1]]

StatusKey == <<"S","t","a","t","u","s">>

Envelope == StatusKey :> <<"O","K">>

\* GET /Journals?offset=o answers with the journals numbered above o.
JournalsAnswer(dataset, params) ==
    LET offset == DictGet(params, "offset", 0)
        above  == SelectSeq(dataset, LAMBDA n : n > offset)
        page   == Take(above, UpstreamPageSize)
    IN  (JournalsKey :> [i \in 1..Len(page) |-> [JournalNumber |-> page[i]]]) @@ Envelope

\* GET /<Stream>?page=p answers with the p-th hundred of the records.
PaginatedAnswer(s, total, params) ==
    LET from == (params["page"] - 1) * page_size + 1
        to   == IF params["page"] * page_size < total
                THEN params["page"] * page_size ELSE total
    IN  (ApiKey(s) :> Records(from, to)) @@ Envelope

\* GET /<Stream> of an endpoint without pages answers with every record.
BookmarkedAnswer(s, data) == (ApiKey(s) :> Records(1, data.total)) @@ Envelope

\* What such an endpoint holds: its records, and whether its responses carry
\* an X-Next-Page header.
BookmarkedUpstreams ==
    [total : PaginatedTotals, x_next_page : {None, Some(<<"2">>)}]

Answer(s, data, params) ==
    IF s.kind = "JournalSequence" THEN JournalsAnswer(data, params)
    ELSE IF s.kind \in {"Bookmarked", "FullTable"} THEN BookmarkedAnswer(s, data)
    ELSE PaginatedAnswer(s, data, params)

Timestamp1 ==
    <<"2","0","2","4","-","0","1","-","0","1","T","0","0",":","0","0",":","0","0","Z">>

\* A bookmark as the state keeps the value of a record: with microseconds
\* and a numeric offset.
Timestamp2 ==
    <<"2","0","2","4","-","0","6","-","3","0","T","1","2",":","3","4",":","5","6",
      ".","7","8","9","0","0","0","+","0","0",":","0","0">>

Bookmarks(s) ==
    IF s.kind = "JournalSequence" THEN {None} \cup {Some(n) : n \in 1..MaxJournal}
    ELSE {None, Some(Timestamp1), Some(Timestamp2)}

\* get_starting_replication_key_value(context): the stored bookmark of a
\* stream with a replication_key, None for a stream without one.
get_starting_replication_key_value(s, state) ==
    IF s.replication_key = None THEN None ELSE state.replication_key_value

\* The configuration a sync reads: tenant_id, and user_agent absent, empty
\* or set.
SyncConfigs ==
    {("tenant_id" :> "test-tenant-id") @@ Entry("user_agent", user_agent) :
        user_agent \in {None, Some(""), Some("tap-xero/test")}}

Upstreams(s) ==
    IF s.kind = "JournalSequence" THEN JournalDatasets
    ELSE IF s.kind \in {"Bookmarked", "FullTable"} THEN BookmarkedUpstreams
    ELSE PaginatedTotals

(***************************************************************************)
(* The state of a stream: its bookmark (replication_key_value) and, while  *)
(* it is synced, its progress marker.  The streams declare a               *)
(* replication_key and no is_sorted, so that their records move the        *)
(* progress marker and the bookmark follows when the sync is complete.     *)
(***************************************************************************)
StartingState(value) == [replication_key_value |-> value, progress_markers |-> None]

\* A record with the replication key value new_rk_value has been synced:
\* the progress marker becomes that value unless it is smaller.
increment_state_unchecked(s, new_rk_value) ==
    [s EXCEPT !.progress_markers = Some(new_rk_value)]

increment_state(s, new_rk_value) ==
    IF s.progress_markers = None \/ new_rk_value >= s.progress_markers[1]
    THEN [s EXCEPT !.progress_markers = Some(new_rk_value)]
    ELSE s

RECURSIVE IncrementAll(_, _)
IncrementAll(s, values) ==
    IF values = <<>> THEN s
    ELSE IncrementAll(increment_state(s, Head(values)), Tail(values))

\* The sync is complete: the progress marker, if there is one, is promoted.
finalize_state_progress_markers(s) ==
    IF s.progress_markers = None THEN s
    ELSE [replication_key_value |-> s.progress_markers, progress_markers |-> None]

(***************************************************************************)
(* One sync of one stream: the request loop that drives get_url_params,    *)
(* parse_response and get_next_page_token.                                 *)
(***************************************************************************)
InitSync ==
    /\ pc = "prepare"
    /\ stream \in Streams
    /\ \E stored \in Bookmarks(stream) :
          stream_state = (stream.name :> StartingState(stored))
    /\ bookmark = get_starting_replication_key_value(stream, stream_state[stream.name])
    /\ upstream \in Upstreams(stream)
    /\ next_page_token = None
    /\ responses = <<>>
    /\ requests = <<>>
    /\ returned = None
    /\ yielded = <<>>
    /\ pending = <<>>
    /\ request_headers = <<>>
    /\ config = ("tenant_id" :> "test-tenant-id")
    /\ AuthIdle /\ SendIdle /\ record = None /\ memory = None /\ InstIdle

\* prepare_request and the send: one request with the parameters of
\* get_url_params, answered by the API.
SendRequest ==
    /\ pc = "prepare"
    /\ LET params == get_url_params(stream, bookmark, next_page_token)
       IN  /\ requests' = Append(requests, params)
           /\ responses' = Append(responses, Answer(stream, upstream, params))
    /\ request_headers' = Append(request_headers, http_headers(config, stream, bookmark))
    /\ pc' = "parse"
    /\ UNCHANGED <<stream, bookmark, upstream, next_page_token, returned, allButSync,
                   stream_state, yielded, pending>>

\* parse_response of JournalsStream reads data.get("Journals", []); each
\* record is handed to the sink and moves the stream's progress marker.
ParseJournals ==
    /\ pc = "parse"
    /\ stream.kind = "JournalSequence"
    /\ LET page == JournalsStream_parse_response(Last(responses))
       IN  /\ yielded' = yielded \o [i \in 1..Len(page) |->
                                        [stream |-> stream.name, record |-> page[i]]]
           /\ stream_state' = [stream_state EXCEPT ![stream.name] =
                  IncrementAll(@, [i \in 1..Len(page) |-> JournalNumberOf(page[i])])]
    /\ pc' = "advance"
    /\ UNCHANGED <<syncVars, returned, allButSync, pending, request_headers>>

\* parse_response of PaginatedStream calls extract_jsonpath, a name the
\* module streams.py neither defines nor imports: NameError.
ParsePaginated ==
    /\ pc = "parse"
    /\ stream.kind = "Paginated"
    /\ pc' = "name_error"
    /\ UNCHANGED <<syncVars, returned, allButSync, runVars>>

\* parse_response of BookmarkedStream calls extract_jsonpath as well:
\* NameError at the first record asked of it, before the paginator is
\* consulted.
ParseBookmarked ==
    /\ pc = "parse"
    /\ stream.kind = "Bookmarked"
    /\ pc' = "name_error"
    /\ UNCHANGED <<syncVars, returned, allButSync, runVars>>

\* parse_response of FullTableStream calls extract_jsonpath as well.
ParseFullTable ==
    /\ pc = "parse"
    /\ stream.kind = "FullTable"
    /\ pc' = "name_error"
    /\ UNCHANGED <<syncVars, returned, allButSync, runVars>>

\* The paginator's advance: the sync is finished on a falsy token, fails on a
\* token equal to the previous one, and goes on with any other token.  A
\* finished sync promotes the stream's progress marker to its bookmark.
Advance ==
    /\ pc = "advance"
    /\ LET new == get_next_page_token(stream, Last(responses), next_page_token)
       IN  /\ returned' = new
           /\ IF ~TruthyInt(new)
              THEN /\ pc' = "done"
                   /\ stream_state' = [stream_state EXCEPT ![stream.name] =
                                          finalize_state_progress_markers(@)]
                   /\ UNCHANGED next_page_token
              ELSE IF new = next_page_token
              THEN pc' = "loop_detected" /\ UNCHANGED <<next_page_token, stream_state>>
              ELSE pc' = "prepare" /\ next_page_token' = new /\ UNCHANGED stream_state
    /\ UNCHANGED <<stream, bookmark, upstream, responses, requests, allButSync,
                   yielded, pending, request_headers>>

NextSync ==
    \/ SendRequest
    \/ ParseJournals
    \/ ParsePaginated
    \/ ParseBookmarked
    \/ ParseFullTable
    \/ Advance

SpecSync == InitSync /\ [][NextSync]_vars

(***************************************************************************)
(* Runs of the tap: the selected streams are synced one after the other,   *)
(* in the order of discover_streams; an exception of a stream's sync       *)
(* leaves the run, and the next run starts from the state the last one     *)
(* left behind.                                                            *)
(***************************************************************************)
MaxRunJournal == 4   \* the journals of a run are numbered 1..MaxRunJournal
MaxRuns == 2         \* the tap is run this many times in a row

\* What /Journals holds in a run: journals in the order of their numbers.
RunDatasets ==
    {d \in UNION {[1..n -> 1..MaxRunJournal] : n \in 0..MaxRunJournal} :
        \A i \in 1..(Len(d) - 1) : d[i] < d[i + 1]}

RunUpstreams(s) ==
    IF s.kind = "JournalSequence" THEN RunDatasets ELSE Upstreams(s)

RunBookmarks(s) ==
    IF s.kind = "JournalSequence" THEN {None} \cup {Some(n) : n \in 1..MaxRunJournal}
    ELSE {None, Some(Timestamp1)}

\* The selections of the catalog, each in the order of discover_streams.
Selections ==
    {<<InvoicesStream>>, <<ManualJournalsStream>>, <<JournalsStream>>,
     <<AccountsStream>>, <<BrandingThemesStream>>,
     <<ManualJournalsStream, JournalsStream>>, <<JournalsStream, BrandingThemesStream>>,
     <<InvoicesStream, JournalsStream>>, <<InvoicesStream, AccountsStream>>,
     <<JournalsStream, AccountsStream>>,
     <<InvoicesStream, JournalsStream, AccountsStream>>}

NamesOf(selection) == {selection[i].name : i \in 1..Len(selection)}

\* The progress markers of an interrupted sync are dropped when a run starts.
reset_state_progress_markers(s) == [s EXCEPT !.progress_markers = None]

InitRun ==
    /\ pc = "prepare"
    /\ \E selection \in Selections :
          /\ stream = Head(selection)
          /\ pending = <<Tail(selection)>> \o [i \in 1..(MaxRuns - 1) |-> selection]
          /\ \E journal \in RunBookmarks(JournalsStream),
                invoice \in RunBookmarks(InvoicesStream),
                other \in RunBookmarks(AccountsStream) :
                stream_state = [n \in NamesOf(selection) |->
                    StartingState(IF n = JournalsStream.name THEN journal
                                  ELSE IF n = InvoicesStream.name THEN invoice
                                  ELSE other)]
    /\ bookmark = get_starting_replication_key_value(stream, stream_state[stream.name])
    /\ upstream \in RunUpstreams(stream)
    /\ next_page_token = None
    /\ responses = <<>>
    /\ requests = <<>>
    /\ returned = None
    /\ yielded = <<>>
    /\ request_headers = <<>>
    /\ config \in SyncConfigs
    /\ AuthIdle /\ SendIdle /\ record = None /\ memory = None /\ InstIdle

\* A variant in which a failure takes back what the stream's sync has done.
FailRequest_rollback ==
    /\ pc = "prepare"
    /\ requests' = Append(requests, get_url_params(stream, bookmark, next_page_token))
    /\ request_headers' = Append(request_headers, http_headers(config, stream, bookmark))
    /\ pc' = "failed"
    /\ stream_state' = [stream_state EXCEPT ![stream.name] =
                           reset_state_progress_markers(@)]
    /\ yielded' = SelectSeq(yielded, LAMBDA y : y.stream # stream.name)
    /\ UNCHANGED <<stream, bookmark, upstream, next_page_token, responses, returned,
                   allButSync, pending>>

\* A request ends in an exception of validate_response that is not retried,
\* or that is still there after the last try: the exception leaves the sync.
FailRequest ==
    /\ pc = "prepare"
    /\ requests' = Append(requests, get_url_params(stream, bookmark, next_page_token))
    /\ request_headers' = Append(request_headers, http_headers(config, stream, bookmark))
    /\ pc' = "failed"
    /\ UNCHANGED <<stream, bookmark, upstream, next_page_token, responses, returned,
                   allButSync, stream_state, yielded, pending>>

\* The sync of a stream is complete and the next selected stream is synced.
NextStream ==
    /\ pc = "done"
    /\ Len(Head(pending)) > 0
    /\ stream' = Head(Head(pending))
    /\ pending' = <<Tail(Head(pending))>> \o Tail(pending)
    /\ bookmark' = get_starting_replication_key_value(stream', stream_state[stream'.name])
    /\ upstream' \in RunUpstreams(stream')
    /\ next_page_token' = None
    /\ responses' = <<>>
    /\ requests' = <<>>
    /\ request_headers' = <<>>
    /\ returned' = None
    /\ pc' = "prepare"
    /\ UNCHANGED <<allButSync, stream_state, yielded>>

\* The run is over, complete or left by an exception, and the tap is run
\* again with the state it has left.
StartRun ==
    /\ \/ pc \in {"failed", "name_error", "loop_detected"}
       \/ pc = "done" /\ Len(Head(pending)) = 0
    /\ Len(pending) >= 2
    /\ stream' = Head(pending[2])
    /\ pending' = <<Tail(pending[2])>> \o Tail(Tail(pending))
    /\ stream_state' = [n \in DOMAIN stream_state |->
                           reset_state_progress_markers(stream_state[n])]
    /\ bookmark' = get_starting_replication_key_value(stream', stream_state[stream'.name])
    /\ upstream' \in RunUpstreams(stream')
    /\ next_page_token' = None
    /\ responses' = <<>>
    /\ requests' = <<>>
    /\ request_headers' = <<>>
    /\ returned' = None
    /\ yielded' = <<>>
    /\ pc' = "prepare"
    /\ UNCHANGED allButSync

NextRun == NextSync \/ FailRequest \/ NextStream \/ StartRun

SpecRun == InitRun /\ [][NextRun]_vars

(***************************************************************************)
(* get_next_page_token as a function of its arguments.                     *)
(***************************************************************************)
MaxToken == 3      \* previous_token is None or a page number up to MaxToken
MaxPageLen == 3    \* a journals response holds at most this many records

PreviousTokens == {None} \cup {Some(n) : n \in 1..MaxToken}

JournalPages ==
    UNION {[1..n -> [JournalNumber : 1..MaxJournal]] : n \in 0..MaxPageLen}

TokenResponses(s) ==
    IF s.kind = "JournalSequence"
    THEN {(JournalsKey :> page) @@ Envelope : page \in JournalPages}
    ELSE {(ApiKey(s) :> Records(1, n)) @@ Envelope :
             n \in {0, 37, page_size - 1, page_size, page_size + 1}}

\* The starting values the calls are made with.
TokenBookmarks(s) ==
    IF s.kind = "JournalSequence" THEN {None, Some(MaxToken)} ELSE Bookmarks(s)

InitToken ==
    /\ pc = "call"
    /\ stream \in PaginatedStreams \cup {JournalsStream}
    /\ next_page_token \in PreviousTokens
    /\ \E data \in TokenResponses(stream) : responses = <<data>>
    /\ bookmark \in TokenBookmarks(stream)
    /\ upstream = <<>>
    /\ requests = <<>>
    /\ returned = None
    /\ stream_state = None /\ yielded = <<>> /\ pending = <<>>
    /\ request_headers = <<>>
    /\ AuthIdle /\ SendIdle /\ record = None /\ memory = None /\ config = None /\ InstIdle

CallGetNextPageToken ==
    /\ pc = "call"
    /\ returned' = get_next_page_token(stream, Last(responses), next_page_token)
    /\ pc' = "returned"
    /\ UNCHANGED <<syncVars, allButSync, runVars>>

\* get_url_params(context, next_page_token), as prepare_request calls it.
CallGetUrlParams ==
    /\ pc = "call"
    /\ returned' = get_url_params(stream, bookmark, next_page_token)
    /\ pc' = "params"
    /\ UNCHANGED <<syncVars, allButSync, runVars>>

NextToken == CallGetNextPageToken \/ CallGetUrlParams

SpecToken == InitToken /\ [][NextToken]_vars


(***************************************************************************)
(* Properties of the pagination strategies.                                *)
(***************************************************************************)
\* The record array a response holds for a stream.
RecordArray(s, data) == DictGet(data, ApiKey(s), <<>>)

\* C1: for a Paginated stream, get_next_page_token returns (previous cursor,
\* or 1 when it is None) + 1 on a response holding at least 100 records of
\* the stream, and None on a response holding fewer.
C1_PaginatedNextPage ==
    (pc = "returned" /\ stream.kind = "Paginated") =>
        LET n        == Len(RecordArray(stream, Last(responses)))
            previous == IF next_page_token = None THEN 1 ELSE next_page_token[1]
        IN  returned = IF n >= page_size THEN Some(previous + 1) ELSE None

OffsetOf(params) ==
    IF "offset" \in DOMAIN params THEN Some(params["offset"]) ELSE None

JournalNumbers(data) ==
    {RecordArray(JournalsStream, data)[i].JournalNumber :
        i \in 1..Len(RecordArray(JournalsStream, data))}

\* C2: in a journals sync the first request's offset is the starting
\* bookmark, and the offset of every later request is the maximum sequence
\* value of the page fetched just before it, with or without a bookmark.
C2_JournalOffsets ==
    stream.kind = "JournalSequence" =>
        /\ Len(requests) >= 1 => OffsetOf(requests[1]) = bookmark
        /\ \A i \in 2..Len(requests) :
              /\ OffsetOf(requests[i]) # None
              /\ OffsetOf(requests[i])[1] \in JournalNumbers(responses[i - 1])
              /\ \A n \in JournalNumbers(responses[i - 1]) : n <= OffsetOf(requests[i])[1]

Advanced == pc \in {"prepare", "done", "loop_detected"} /\ responses # <<>>

\* C3: JournalsStream.get_next_page_token returns the maximum JournalNumber
\* of the page just fetched when the page holds a record, and None, which
\* completes the sync, when the page is empty.
C3_JournalsNextToken ==
    (stream.kind = "JournalSequence" /\ Advanced) =>
        LET numbers == JournalNumbers(Last(responses))
        IN  IF numbers # {}
            THEN /\ returned # None
                 /\ returned[1] \in numbers
                 /\ \A n \in numbers : n <= returned[1]
            ELSE returned = None /\ pc = "done"

\* The page [5, 9, 3] has been fetched and the token returned is 9.
C3_Witness ==
    /\ stream.kind = "JournalSequence" /\ Advanced
    /\ RecordArray(JournalsStream, Last(responses)) =
          <<[JournalNumber |-> 5], [JournalNumber |-> 9], [JournalNumber |-> 3]>>
    /\ returned = Some(9)

\* The sync of a Bookmarked stream has ended.
BookmarkedEnded ==
    stream # <<>> /\ stream.kind = "Bookmarked" /\ pc \notin {"prepare", "parse"}

\* The bookmark as the filter expression carries it.
Encoded(timestamp) == StrReplace(timestamp, ":", <<"%","3","A">>)

\* The text with every "%3A" read back as ":".
RECURSIVE Unescaped(_)
Unescaped(text) ==
    IF text = <<>> THEN <<>>
    ELSE IF StartsWithAt(text, 1, <<"%","3","A">>)
    THEN <<":">> \o Unescaped(SubSeq(text, 4, Len(text)))
    ELSE <<Head(text)>> \o Unescaped(Tail(text))

FilterPrefix(s) == s.replication_key \o <<">","D","a","t","e","T","i","m","e","(">>

\* The timestamp inside the filter expression where.
Embedded(s, where) == SubSeq(where, Len(FilterPrefix(s)) + 1, Len(where) - 1)

\* C33: the timestamp embedded in the where parameter of a Paginated or
\* Bookmarked request holds no ':', and is the bookmark once each "%3A" is
\* read back as ':'.
C33_ColonsEscaped ==
    (stream # <<>> /\ stream.kind \in {"Paginated", "Bookmarked"}) =>
        \A i \in 1..Len(requests) :
            "where" \in DOMAIN requests[i] =>
                LET where == requests[i]["where"]
                IN  /\ StartsWithAt(where, 1, FilterPrefix(stream))
                    /\ where[Len(where)] = ")"
                    /\ ~Contains(Embedded(stream, where), <<":">>)
                    /\ Unescaped(Embedded(stream, where)) = bookmark[1]
                    /\ Len(Embedded(stream, where)) = Len(bookmark[1])
                          + 2 * Cardinality({k \in 1..Len(bookmark[1]) :
                                                bookmark[1][k] = ":"})

\* A Paginated and a Bookmarked request with a bookmark of three colons.
C33_Witness ==
    /\ stream \in {InvoicesStream, AccountsStream}
    /\ bookmark = Some(Timestamp2)
    /\ Len(requests) = 1
    /\ Contains(requests[1]["where"],
                <<"1","2","%","3","A","3","4","%","3","A","5","6">>)

\* The order of the replication key values of stream n: journal numbers are
\* integers; the one timestamp of the runs is compared with itself only.
OptGeq(n, a, b) ==
    \/ b = None
    \/ a # None /\ (IF n = JournalsStream.name THEN a[1] >= b[1] ELSE a = b)

C24_FailureKeepsProgress ==
    [][pc' = "failed" => stream_state' = stream_state /\ yielded' = yielded]_vars

\* The journals were synced to the end and the next stream of the run failed.
C24_Witness ==
    /\ pc = "failed"
    /\ stream = AccountsStream
    /\ JournalsStream.name \in DOMAIN stream_state
    /\ stream_state[JournalsStream.name].replication_key_value # None
    /\ Len(yielded) > 0

\* The journals failed on a later page, after records of an earlier page.
C24_WitnessPartial ==
    /\ pc = "failed"
    /\ stream = JournalsStream
    /\ stream_state[JournalsStream.name].progress_markers # None
    /\ Len(requests) >= 2
    /\ Len(yielded) > 0

\* The sync of the stream has left the request loop.
SyncEnded == pc \notin {"prepare", "parse", "advance"}

\* C25: a sync against an API that answers every request leaves the request
\* loop in Done only, for every pagination variant, with or without a
\* bookmark.
C25_SyncReachesDone ==
    SyncEnded => pc = "done"

\* The records of the responses received so far, as the sink gets them.
RECURSIVE Extracted(_)
Extracted(k) ==
    IF k = 0 THEN <<>>
    ELSE LET array == RecordArray(stream, responses[k])
         IN  Extracted(k - 1) \o
                 [i \in 1..Len(array) |-> [stream |-> stream.name, record |-> array[i]]]

\* C26: for Paginated, Bookmarked and FullTable streams, the records yielded
\* from a response are exactly the elements of the array under the top-level
\* key that is the stream's name without case and underscores.
C26_RecordsExtracted ==
    (stream.kind \in {"Paginated", "Bookmarked", "FullTable"}
        /\ pc \notin {"prepare", "parse"}) =>
        /\ pc # "name_error"
        /\ yielded = Extracted(Len(responses))

\* C27: the parameters of a Paginated request are page = the cursor, or 1
\* without one; where = '<replication_key>>DateTime(<bookmark>)' exactly when
\* there is a bookmark; order = '<replication_key> ASC' exactly when the
\* stream supports_order_by, which manual_journals does not.
C27_PaginatedParams ==
    (pc = "params" /\ stream.kind = "Paginated") =>
        /\ returned["page"] = (IF next_page_token = None THEN 1 ELSE next_page_token[1])
        /\ "where" \in DOMAIN returned <=> bookmark # None
        /\ bookmark # None =>
              returned["where"] = stream.replication_key
                  \o <<">","D","a","t","e","T","i","m","e","(">>
                  \o Encoded(bookmark[1]) \o <<")">>
        /\ "order" \in DOMAIN returned <=> stream.supports_order_by
        /\ stream.supports_order_by =>
              returned["order"] = stream.replication_key \o <<" ","A","S","C">>
        /\ stream = ManualJournalsStream => "order" \notin DOMAIN returned
        /\ DOMAIN returned \subseteq {"page", "where", "order"}

\* The parameters of a later page of manual_journals, from a bookmark.
C27_Witness ==
    /\ pc = "params"
    /\ stream = ManualJournalsStream
    /\ next_page_token # None
    /\ bookmark # None
    /\ DOMAIN returned = {"page", "where"}

\* C28: every request carries Xero-Tenant-Id = tenant_id and Accept =
\* application/json, User-Agent exactly when a user_agent is configured, and
\* If-Modified-Since, holding the bookmark timestamp, exactly when the stream
\* has a bookmark value.
C28_RequestHeaders ==
    \A i \in 1..Len(request_headers) :
        LET h == request_headers[i]
        IN  /\ h["Xero-Tenant-Id"] = config["tenant_id"]
            /\ h["Accept"] = "application/json"
            /\ "User-Agent" \in DOMAIN h <=>
                  ("user_agent" \in DOMAIN config /\ config["user_agent"] # "")
            /\ "User-Agent" \in DOMAIN h => h["User-Agent"] = config["user_agent"]
            /\ "If-Modified-Since" \in DOMAIN h <=> bookmark # None
            /\ "If-Modified-Since" \in DOMAIN h =>
                  /\ h["If-Modified-Since"] = bookmark[1]
                  /\ stream.kind # "JournalSequence"

\* C29: a sync of a FullTable stream sends one request, without parameters
\* and without If-Modified-Since, whatever the state holds for the stream.
C29_FullTableOneRequest ==
    (stream.kind = "FullTable" /\ SyncEnded) =>
        /\ Len(requests) = 1
        /\ DOMAIN requests[1] = {}
        /\ "If-Modified-Since" \notin DOMAIN request_headers[1]

\* A FullTable sync has ended with a value in the state and a response that
\* holds two full pages of records and names a next page.
C29_Witness ==
    /\ stream.kind = "FullTable"
    /\ SyncEnded
    /\ pc # "failed"
    /\ stream_state[stream.name].replication_key_value # None
    /\ upstream.total = 2 * page_size
    /\ upstream.x_next_page # None

\* C15: a sync of a Bookmarked stream that starts from a bookmark issues
\* exactly one request, whatever the number of records and the headers of
\* the response, and that request carries the filter
\* '<replication_key> > bookmark' and no page parameter.
C15_BookmarkedOneRequest ==
    (stream # <<>> /\ stream.kind = "Bookmarked" /\ bookmark # None) =>
        /\ Len(requests) <= 1
        /\ BookmarkedEnded => Len(requests) = 1
        /\ \A i \in 1..Len(requests) :
              /\ DOMAIN requests[i] = {"where"}
              /\ StartsWithAt(requests[i]["where"], 1, stream.replication_key \o <<">">>)
              /\ Contains(requests[i]["where"], Encoded(bookmark[1]))

\* A sync from a bookmark has ended against an endpoint that holds more
\* than a page of records and answers with an X-Next-Page header.
C15_Witness ==
    /\ BookmarkedEnded
    /\ bookmark = Some(Timestamp1)
    /\ upstream.total = 2 * page_size
    /\ upstream.x_next_page # None
    /\ Len(requests) = 1


(***************************************************************************)
(* The authenticators (client.py, auth.py).                                *)
(***************************************************************************)
NumWorkers == 2     \* the callers that may ask the authenticator for a token
TickSeconds == 900  \* the clock advances in steps of this many seconds
MaxNow == 3600      \* the clock stops here

Workers == 1..NumWorkers

\* dict.get(key) as an Optional.
OptGet(d, k) == IF k \in DOMAIN d THEN Some(d[k]) ELSE None

\* Python truthiness of the Optional[str] a dict.get returns.
TruthyText(o) == o # None /\ o[1] # ""

DirectCredentials ==
    [client_id |-> "test_client_id", client_secret |-> "test_client_secret",
     refresh_token |-> 0]

ProxyCredentials ==
    [refresh_proxy_url |-> "http://localhost:8080/api/tokens/oauth2-xero/token",
     refresh_proxy_url_auth |-> "Bearer proxy_test_token",
     refresh_token |-> 0]

\* XeroOAuth2Authenticator.__init__
XeroOAuth2Authenticator(client_id, client_secret, token) ==
    [class |-> "XeroOAuth2Authenticator",
     client_id |-> client_id,
     client_secret |-> client_secret,
     refresh_token |-> token,
     auth_endpoint |-> "https://identity.xero.com/connect/token"]

\* ProxyXeroOAuth2Authenticator.__init__
ProxyXeroOAuth2Authenticator(auth_endpoint, auth_headers, auth_body) ==
    [class |-> "ProxyXeroOAuth2Authenticator",
     auth_endpoint |-> auth_endpoint,
     auth_headers |-> auth_headers,
     auth_body |-> auth_body]

\* The headers and the body XeroStream.authenticator gives the proxy
\* authenticator.
ProxyAuthHeaders(oauth_credentials) ==
    [authorization |-> IF "refresh_proxy_url_auth" \in DOMAIN oauth_credentials
                       THEN oauth_credentials["refresh_proxy_url_auth"] ELSE "",
     ContentType |-> "application/json",
     Accept |-> "application/json"]

ProxyAuthBody(oauth_credentials) ==
    [refresh_token |-> oauth_credentials["refresh_token"], grant_type |-> "refresh_token"]

\* XeroStream.authenticator with the proxy endpoint looked at first.
authenticator_proxy_first(oauth_credentials) ==
    LET client_id         == OptGet(oauth_credentials, "client_id")
        client_secret     == OptGet(oauth_credentials, "client_secret")
        refresh_proxy_url == OptGet(oauth_credentials, "refresh_proxy_url")
    IN  IF TruthyText(refresh_proxy_url)
        THEN ProxyXeroOAuth2Authenticator(refresh_proxy_url[1],
                 ProxyAuthHeaders(oauth_credentials), ProxyAuthBody(oauth_credentials))
        ELSE IF TruthyText(client_id) /\ TruthyText(client_secret)
        THEN XeroOAuth2Authenticator(client_id[1], client_secret[1],
                                     oauth_credentials["refresh_token"])
        ELSE [class |-> "ValueError"]

\* XeroStream.authenticator without its final raise: the proxy authenticator
\* is built whenever the direct one is not.
authenticator_no_raise(oauth_credentials) ==
    LET client_id         == OptGet(oauth_credentials, "client_id")
        client_secret     == OptGet(oauth_credentials, "client_secret")
        refresh_proxy_url == OptGet(oauth_credentials, "refresh_proxy_url")
    IN  IF TruthyText(client_id) /\ TruthyText(client_secret)
        THEN XeroOAuth2Authenticator(client_id[1], client_secret[1],
                                     oauth_credentials["refresh_token"])
        ELSE ProxyXeroOAuth2Authenticator(
                 IF refresh_proxy_url = None THEN "" ELSE refresh_proxy_url[1],
                 ProxyAuthHeaders(oauth_credentials), ProxyAuthBody(oauth_credentials))

\* XeroStream.authenticator: the authenticator built from oauth_credentials.
authenticator(oauth_credentials) ==
    LET client_id         == OptGet(oauth_credentials, "client_id")
        client_secret     == OptGet(oauth_credentials, "client_secret")
        refresh_proxy_url == OptGet(oauth_credentials, "refresh_proxy_url")
    IN  IF TruthyText(client_id) /\ TruthyText(client_secret)
        THEN XeroOAuth2Authenticator(client_id[1], client_secret[1],
                                     oauth_credentials["refresh_token"])
        ELSE IF TruthyText(refresh_proxy_url)
        THEN ProxyXeroOAuth2Authenticator(refresh_proxy_url[1],
                 ProxyAuthHeaders(oauth_credentials), ProxyAuthBody(oauth_credentials))
        ELSE [class |-> "ValueError"]

IsDirect == authenticator(credentials).class = "XeroOAuth2Authenticator"
IsProxy == authenticator(credentials).class = "ProxyXeroOAuth2Authenticator"

\* XeroOAuth2Authenticator.oauth_request_headers
oauth_request_headers(a) ==
    [Authorization |-> <<"Basic", a.client_id, ":", a.client_secret>>,
     ContentType |-> "application/x-www-form-urlencoded"]

\* XeroOAuth2Authenticator.oauth_request_body
oauth_request_body == [grant_type |-> "refresh_token", refresh_token |-> refresh_token[1]]

\* The POST a refresh sends, and the time at which it is sent.
RefreshRequest ==
    LET a == authenticator(credentials)
    IN  IF IsDirect
        THEN [type |-> "request", at |-> now, url |-> a.auth_endpoint,
              headers |-> oauth_request_headers(a),
              body_format |-> "form", body |-> oauth_request_body]
        ELSE [type |-> "request", at |-> now, url |-> a.auth_endpoint,
              headers |-> a.auth_headers,
              body_format |-> "json", body |-> a.auth_body]

\* The identity provider answers a refresh token it accepts with a new access
\* token and a rotated refresh token, and accepts only the rotated one from
\* then on; it answers any other refresh token with 400.
DirectAnswers(request) ==
    IF request.body.refresh_token = provider.accepts
    THEN {[type |-> "response", status |-> 200, is_json |-> TRUE,
           body |-> [access_token |-> provider.issued + 1, expires_in |-> 1800,
                     refresh_token |-> provider.accepts + 1]]}
    ELSE {[type |-> "response", status |-> 400, is_json |-> TRUE,
           body |-> [error |-> "invalid_grant"]]}

\* The proxy answers with an access token, with or without expires_in, or
\* fails with a JSON body or with a body that is no JSON.
ProxyAnswers(request) ==
    {[type |-> "response", status |-> 200, is_json |-> TRUE,
      body |-> [access_token |-> provider.issued + 1, expires_in |-> 1800]],
     [type |-> "response", status |-> 200, is_json |-> TRUE,
      body |-> [access_token |-> provider.issued + 1]],
     [type |-> "response", status |-> 500, is_json |-> TRUE,
      body |-> [error |-> "proxy failure"]],
     [type |-> "response", status |-> 502, is_json |-> FALSE,
      body |-> [text |-> "Bad Gateway"]],
     [type |-> "response", status |-> 302, is_json |-> FALSE,
      body |-> [text |-> "Found"]]}

Answers(request) == IF IsDirect THEN DirectAnswers(request) ELSE ProxyAnswers(request)

\* raise_for_status() raises for 4xx and 5xx.
RaisesForStatus(status) == status >= 400

ProviderAfter(answer) ==
    IF answer.status # 200 THEN provider
    ELSE [issued |-> provider.issued + 1,
          accepts |-> IF "refresh_token" \in DOMAIN answer.body
                      THEN answer.body.refresh_token ELSE provider.accepts]

\* is_token_valid of the authenticator base class.
is_token_valid ==
    /\ last_refreshed # None
    /\ \/ ~TruthyInt(expires_in)
       \/ expires_in[1] > now - last_refreshed[1]

InitAuth ==
    /\ pc = "auth"
    /\ credentials \in {DirectCredentials, ProxyCredentials}
    /\ refresh_token = Some(credentials.refresh_token)
    /\ access_token = None
    /\ expires_in = None
    /\ last_refreshed = None
    /\ now = 0
    /\ provider = [issued |-> 0, accepts |-> credentials.refresh_token]
    /\ token_calls = <<>>
    /\ worker = [w \in Workers |-> [pc |-> "idle", request_time |-> 0, token_response |-> None,
                                  error |-> None]]
    /\ returned = None
    /\ SyncIdle /\ SendIdle /\ record = None /\ memory = None /\ config = None /\ InstIdle

\* A caller needs the Authorization header: the token is refreshed first when
\* it is not valid.
Ask(w) ==
    /\ worker[w].pc = "idle"
    /\ worker' = [worker EXCEPT ![w].pc = IF is_token_valid THEN "authorized" ELSE "refreshing"]
    /\ UNCHANGED <<pc, credentials, refresh_token, access_token, expires_in, last_refreshed,
                   now, provider, token_calls, allButAuth>>

\* update_access_token, up to the POST: request_time = utc_now(); requests.post(...)
update_access_token_post(w) ==
    /\ worker[w].pc = "refreshing"
    /\ \E answer \in Answers(RefreshRequest) :
          /\ worker' = [worker EXCEPT ![w] = [pc |-> "in_flight", request_time |-> now,
                                              token_response |-> answer,
                                              error |-> None]]
          /\ provider' = ProviderAfter(answer)
    /\ token_calls' = Append(token_calls, RefreshRequest)
    /\ UNCHANGED <<pc, credentials, refresh_token, access_token, expires_in, last_refreshed,
                   now, allButAuth>>

\* The exception that leaves update_access_token for a response, if one
\* does.  The handler of raise_for_status builds its RuntimeError from
\* token_response.json(), which raises itself when the body is no JSON; a
\* response raise_for_status lets through is decoded and its access_token
\* read.  quoted is the response body the message of the exception quotes.
RefreshFailure(token_response) ==
    IF RaisesForStatus(token_response.status)
    THEN IF token_response.is_json
         THEN Some([class |-> "RuntimeError", quoted |-> Some(token_response.body)])
         ELSE Some([class |-> "JSONDecodeError", quoted |-> None])
    ELSE IF ~token_response.is_json
    THEN Some([class |-> "JSONDecodeError", quoted |-> None])
    ELSE IF "access_token" \notin DOMAIN token_response.body
    THEN Some([class |-> "KeyError", quoted |-> None])
    ELSE None

\* update_access_token without the assignment of last_refreshed.
update_access_token_receive_no_timestamp(w) ==
    /\ worker[w].pc = "in_flight"
    /\ LET token_response == worker[w].token_response
           token_json     == token_response.body
       IN  IF RefreshFailure(token_response) # None
           THEN /\ worker' = [worker EXCEPT ![w].pc = RefreshFailure(token_response)[1].class,
                                              ![w].error = RefreshFailure(token_response)]
                /\ UNCHANGED <<access_token, expires_in, last_refreshed, token_calls>>
           ELSE /\ access_token' = Some(token_json.access_token)
                /\ expires_in' = IF "expires_in" \in DOMAIN token_json
                                 THEN Some(token_json.expires_in)
                                 ELSE IF IsProxy THEN Some(3600) ELSE None
                /\ UNCHANGED last_refreshed
                /\ token_calls' = Append(token_calls, token_response)
                /\ worker' = [worker EXCEPT ![w].pc = "authorized"]
    /\ UNCHANGED <<pc, credentials, refresh_token, now, provider, allButAuth>>

\* update_access_token without the default of expires_in.
update_access_token_receive_no_default(w) ==
    /\ worker[w].pc = "in_flight"
    /\ LET token_response == worker[w].token_response
           token_json     == token_response.body
       IN  IF RefreshFailure(token_response) # None
           THEN /\ worker' = [worker EXCEPT ![w].pc = RefreshFailure(token_response)[1].class,
                                              ![w].error = RefreshFailure(token_response)]
                /\ UNCHANGED <<access_token, expires_in, last_refreshed, token_calls>>
           ELSE /\ access_token' = Some(token_json.access_token)
                /\ expires_in' = IF "expires_in" \in DOMAIN token_json
                                 THEN Some(token_json.expires_in) ELSE None
                /\ last_refreshed' = Some(worker[w].request_time)
                /\ token_calls' = Append(token_calls, token_response)
                /\ worker' = [worker EXCEPT ![w].pc = "authorized"]
    /\ UNCHANGED <<pc, credentials, refresh_token, now, provider, allButAuth>>

\* update_access_token that drops the cached token when the refresh fails.
update_access_token_receive_clears_token(w) ==
    /\ worker[w].pc = "in_flight"
    /\ LET token_response == worker[w].token_response
           token_json     == token_response.body
       IN  IF RefreshFailure(token_response) # None
           THEN /\ worker' = [worker EXCEPT ![w].pc = RefreshFailure(token_response)[1].class,
                                              ![w].error = RefreshFailure(token_response)]
                /\ access_token' = None
                /\ UNCHANGED <<expires_in, last_refreshed, token_calls>>
           ELSE /\ access_token' = Some(token_json.access_token)
                /\ expires_in' = IF "expires_in" \in DOMAIN token_json
                                 THEN Some(token_json.expires_in)
                                 ELSE IF IsProxy THEN Some(3600) ELSE None
                /\ last_refreshed' = Some(worker[w].request_time)
                /\ token_calls' = Append(token_calls, token_response)
                /\ worker' = [worker EXCEPT ![w].pc = "authorized"]
    /\ UNCHANGED <<pc, credentials, refresh_token, now, provider, allButAuth>>

\* update_access_token, from the response on: raise_for_status(), then the
\* token fields are assigned.  Neither authenticator assigns _refresh_token.
update_access_token_receive(w) ==
    /\ worker[w].pc = "in_flight"
    /\ LET token_response == worker[w].token_response
           token_json     == token_response.body
       IN  IF RefreshFailure(token_response) # None
           THEN /\ worker' = [worker EXCEPT ![w].pc = RefreshFailure(token_response)[1].class,
                                              ![w].error = RefreshFailure(token_response)]
                /\ UNCHANGED <<access_token, expires_in, last_refreshed, token_calls>>
           ELSE /\ access_token' = Some(token_json.access_token)
                /\ expires_in' = IF "expires_in" \in DOMAIN token_json
                                 THEN Some(token_json.expires_in)
                                 ELSE IF IsProxy THEN Some(3600) ELSE None
                /\ last_refreshed' = Some(worker[w].request_time)
                /\ token_calls' = Append(token_calls, token_response)
                /\ worker' = [worker EXCEPT ![w].pc = "authorized"]
    /\ UNCHANGED <<pc, credentials, refresh_token, now, provider, allButAuth>>

\* The caller's request goes out with the token; the caller comes back later.
Finish(w) ==
    /\ worker[w].pc = "authorized"
    /\ worker' = [worker EXCEPT ![w].pc = "idle"]
    /\ UNCHANGED <<pc, credentials, refresh_token, access_token, expires_in, last_refreshed,
                   now, provider, token_calls, allButAuth>>

Tick ==
    /\ now + TickSeconds <= MaxNow
    /\ now' = now + TickSeconds
    /\ UNCHANGED <<pc, credentials, refresh_token, access_token, expires_in, last_refreshed,
                   provider, token_calls, worker, allButAuth>>

NextAuth ==
    \/ \E w \in Workers : Ask(w)
    \/ \E w \in Workers : update_access_token_post(w)
    \/ \E w \in Workers : update_access_token_receive(w)
    \/ \E w \in Workers : Finish(w)
    \/ Tick

SpecAuth == InitAuth /\ [][NextAuth]_vars

\* The tap syncs its streams one after another: a stream asks for a token
\* only when no other caller is inside the authenticator.
Outside(w) == worker[w].pc \in {"idle", "RuntimeError", "JSONDecodeError", "KeyError"}

AskInTurn(w) == (\A v \in Workers \ {w} : Outside(v)) /\ Ask(w)

NextAuthInTurn ==
    \/ \E w \in Workers : AskInTurn(w)
    \/ \E w \in Workers : update_access_token_post(w)
    \/ \E w \in Workers : update_access_token_receive(w)
    \/ \E w \in Workers : Finish(w)
    \/ Tick

SpecAuthInTurn == InitAuth /\ [][NextAuthInTurn]_vars

\* C4: in direct mode, once a refresh response with a new refresh_token has
\* been received, every later refresh request carries that rotated token.
C4_RotatedTokenUsed ==
    IsDirect =>
        \A i, j \in 1..Len(token_calls) :
            ( /\ i < j
              /\ token_calls[i].type = "response"
              /\ "refresh_token" \in DOMAIN token_calls[i].body
              /\ token_calls[j].type = "request"
              /\ \A k \in (i + 1)..(j - 1) : token_calls[k].type = "request" )
            => token_calls[j].body.refresh_token = token_calls[i].body.refresh_token

InFlight == {w \in Workers : worker[w].pc = "in_flight"}

\* C5: at no time are two refresh requests in flight for the credential set.
C5_OneRefreshInFlight == Cardinality(InFlight) <= 1

\* The refresh requests sent so far, and the 2xx responses received.
Posts == {i \in 1..Len(token_calls) : token_calls[i].type = "request"}

Granted == {i \in 1..Len(token_calls) : token_calls[i].type = "response"}

Failed == {w \in Workers : worker[w].error # None}

\* C20: a proxy-mode refresh sends exactly one POST, to the configured proxy
\* endpoint, with the configured headers and a JSON body of the configured
\* refresh_token and grant_type=refresh_token; after a 2xx response the
\* access token is the response's access_token and the lifetime is the
\* response's expires_in, or 3600 seconds when the response has none.
C20_ProxyRefresh ==
    (pc = "auth" /\ IsProxy) =>
        /\ Cardinality(Posts) = Cardinality(Granted) + Cardinality(InFlight)
                                    + Cardinality(Failed)
        /\ \A i \in Posts :
              /\ token_calls[i].url = credentials["refresh_proxy_url"]
              /\ token_calls[i].headers.authorization = credentials["refresh_proxy_url_auth"]
              /\ token_calls[i].body_format = "json"
              /\ token_calls[i].body =
                     [refresh_token |-> credentials["refresh_token"],
                      grant_type |-> "refresh_token"]
        /\ (token_calls # <<>> /\ Last(token_calls).type = "response") =>
              LET token_json == Last(token_calls).body
              IN  /\ access_token = Some(token_json.access_token)
                  /\ expires_in = IF "expires_in" \in DOMAIN token_json
                                  THEN Some(token_json.expires_in) ELSE Some(3600)

\* A proxy refresh has been answered 200 without expires_in.
C20_Witness ==
    /\ pc = "auth" /\ IsProxy
    /\ token_calls # <<>>
    /\ Last(token_calls).type = "response"
    /\ "expires_in" \notin DOMAIN Last(token_calls).body
    /\ expires_in = Some(3600)

\* The refreshes that a response other than 2xx has ended.
Refused == {w \in Workers : /\ worker[w].pc \notin {"idle", "refreshing", "in_flight"}
                             /\ "status" \in DOMAIN worker[w].token_response
                             /\ worker[w].token_response.status \notin 200..299}

\* C21: every non-2xx response to a proxy-mode refresh, with a JSON body or
\* not, makes the refresh fail with the authentication error (RuntimeError),
\* and the error's message includes the response body.
C21_ProxyFailureCarriesBody ==
    (pc = "auth" /\ IsProxy) =>
        \A w \in Refused :
            /\ worker[w].error # None
            /\ worker[w].error[1].class = "RuntimeError"
            /\ worker[w].error[1].quoted = Some(worker[w].token_response.body)

\* The request that the response token_calls[i] answers: the last request
\* before it.
RequestOf(i) ==
    CHOOSE k \in Posts : k < i /\ \A other \in Posts : other < i => other <= k

\* The lifetime of the token the response token_calls[i] grants.
LifetimeOf(i) ==
    IF "expires_in" \in DOMAIN token_calls[i].body
    THEN token_calls[i].body.expires_in ELSE 3600

\* C22: streams synced one after another share the token: once a token has
\* been obtained, no refresh request is sent before it expires, so that one
\* refresh serves every request of every stream until then.
C22_OneRefreshUntilExpiry ==
    pc = "auth" =>
        \A i \in Granted : \A j \in Posts :
            j > i => token_calls[j].at - token_calls[RequestOf(i)].at >= LifetimeOf(i)

\* One refresh has been sent, and a second stream has been authorized with
\* the token it obtained, later on.
C22_Witness ==
    /\ pc = "auth"
    /\ Cardinality(Posts) = 1 /\ Cardinality(Granted) = 1
    /\ now > 0
    /\ \E w \in Workers : /\ worker[w].pc = "authorized"
                           /\ "status" \notin DOMAIN worker[w].token_response


(***************************************************************************)
(* Construction (tap.py, client.py): the tap validates its configuration   *)
(* against config_jsonschema, and a stream builds its authenticator from   *)
(* config["oauth_credentials"] when it prepares its first request.         *)
(***************************************************************************)
\* The properties config_jsonschema declares required.
RequiredProperties == {"client_id", "client_secret", "tenant_id", "refresh_token", "start_date"}

\* The credentials blocks: each of client_id, client_secret and
\* refresh_proxy_url is absent, empty or populated; refresh_token is held by
\* every block.
CredentialBlocks ==
    {Entry("client_id", id) @@ Entry("client_secret", secret)
         @@ Entry("refresh_proxy_url", url) @@ Entry("refresh_proxy_url_auth", auth)
         @@ ("refresh_token" :> 0) :
        id \in {None, Some(""), Some("test_client_id")},
        secret \in {None, Some(""), Some("test_client_secret")},
        url \in {None, Some(""), Some("http://localhost:8080/api/tokens/oauth2-xero/token")},
        auth \in {None, Some("Bearer proxy_test_token")}}

\* The configurations: tenant_id and start_date, any of the other required
\* top-level properties, and an oauth_credentials block or none.
Configs ==
    {("start_date" :> "2024-01-01T00:00:00Z") @@ Entry("tenant_id", tenant)
         @@ Entry("client_id", id) @@ Entry("client_secret", secret)
         @@ Entry("refresh_token", token) @@ Entry("oauth_credentials", block) :
        tenant \in {None, Some("test-tenant-id")},
        id \in {None, Some("top_client_id")},
        secret \in {None, Some("top_client_secret")},
        token \in {None, Some("top_refresh_token")},
        block \in {None} \cup {Some(b) : b \in CredentialBlocks}}

\* Tap.__init__ validates the configuration against config_jsonschema.
Validates(c) == RequiredProperties \subseteq DOMAIN c

InitConfig ==
    /\ pc = "config"
    /\ config \in Configs
    /\ returned = None
    /\ AuthIdle /\ SyncIdle /\ SendIdle /\ record = None /\ memory = None /\ InstIdle

\* TapXero(config=...)
TapInit ==
    /\ pc = "config"
    /\ pc' = IF Validates(config) THEN "tap" ELSE "ConfigValidationError"
    /\ UNCHANGED <<config, returned, authVars, allButConfig>>

\* stream.authenticator, evaluated when the stream prepares its first
\* request.
GetAuthenticator ==
    /\ pc = "tap"
    /\ IF "oauth_credentials" \notin DOMAIN config
       THEN pc' = "KeyError" /\ UNCHANGED <<returned, credentials, refresh_token>>
       ELSE LET built == authenticator(config["oauth_credentials"])
            IN  IF built.class = "ValueError"
                THEN pc' = "ValueError" /\ UNCHANGED <<returned, credentials, refresh_token>>
                ELSE /\ pc' = "authenticator"
                     /\ returned' = Some(built)
                     /\ credentials' = config["oauth_credentials"]
                     /\ refresh_token' = Some(config["oauth_credentials"]["refresh_token"])
    /\ UNCHANGED <<config, access_token, expires_in, last_refreshed, now, provider,
                   token_calls, worker, allButConfig>>

\* The first request needs a token: the authenticator posts its refresh
\* request.
FirstRefresh ==
    /\ pc = "authenticator"
    /\ token_calls' = Append(token_calls, RefreshRequest)
    /\ pc' = "refresh_sent"
    /\ UNCHANGED <<config, returned, credentials, refresh_token, access_token, expires_in,
                   last_refreshed, now, provider, worker, allButConfig>>

NextConfig == TapInit \/ GetAuthenticator \/ FirstRefresh

SpecConfig == InitConfig /\ [][NextConfig]_vars

(***************************************************************************)
(* The authenticators of one process (auth.py): both classes have the      *)
(* metaclass SingletonMeta, under which a class makes an instance at its   *)
(* first call and returns that instance at every later call, whatever the  *)
(* arguments of the call.                                                  *)
(***************************************************************************)
MaxStreams == 4   \* the streams that build their authenticator

OtherDirectCredentials ==
    [DirectCredentials EXCEPT !.client_id = "other_client_id",
                              !.client_secret = "other_client_secret"]

OtherProxyCredentials ==
    [ProxyCredentials EXCEPT
        !.refresh_proxy_url = "http://localhost:8081/api/tokens/oauth2-xero/token"]

InstanceBlocks ==
    {DirectCredentials, OtherDirectCredentials, ProxyCredentials, OtherProxyCredentials}

Classes == {"XeroOAuth2Authenticator", "ProxyXeroOAuth2Authenticator"}

InitInstances ==
    /\ pc = "instances"
    /\ single_instance = [c \in Classes |-> None]
    /\ authenticators = <<>>
    /\ returned = None
    /\ SyncIdle /\ AuthIdle /\ SendIdle /\ record = None /\ memory = None /\ config = None

\* class XeroOAuth2Authenticator(OAuthAuthenticator, metaclass=SingletonMeta):
\* the call of the class gives the instance made before, if there is one.
SingletonMeta_call(made, new) == IF made # None THEN made[1] ELSE new

\* A stream evaluates its authenticator property: the class is called with
\* the credentials of the stream's configuration.
BuildAuthenticator ==
    /\ pc = "instances"
    /\ Len(authenticators) < MaxStreams
    /\ \E oauth_credentials \in InstanceBlocks :
          LET init == authenticator(oauth_credentials)
              new  == [id |-> Len(authenticators) + 1, holds |-> init]
              got  == SingletonMeta_call(single_instance[init.class], new)
          IN  /\ single_instance' = [single_instance EXCEPT ![init.class] = Some(got)]
              /\ authenticators' = Append(authenticators,
                     [oauth_credentials |-> oauth_credentials, authenticator |-> got])
    /\ UNCHANGED <<pc, allButInst>>

NextInstances == BuildAuthenticator

SpecInstances == InitInstances /\ [][NextInstances]_vars

\* The instance a stream got holds the credentials of the stream.
HoldsOwn(b) ==
    /\ b.authenticator.holds.class = authenticator(b.oauth_credentials).class
    /\ b.authenticator.holds = authenticator(b.oauth_credentials)

\* C30: streams built from the same credentials get the same authenticator
\* instance, and streams built from different credentials get different
\* instances, each holding the credentials of its own stream.
C30_OneInstancePerCredentialSet ==
    pc = "instances" =>
        /\ \A i \in 1..Len(authenticators) : HoldsOwn(authenticators[i])
        /\ \A i, j \in 1..Len(authenticators) :
              (authenticators[i].authenticator.id = authenticators[j].authenticator.id)
                  <=> (authenticators[i].oauth_credentials
                          = authenticators[j].oauth_credentials)

\* What a credentials block holds: a field is held when it is populated.
Holds(block, field) == field \in DOMAIN block /\ block[field] # ""

HoldsDirect(block) == Holds(block, "client_id") /\ Holds(block, "client_secret")

HoldsProxy(block) == Holds(block, "refresh_proxy_url")

\* The credentials of a configuration: its oauth_credentials block.
CredentialsOf(c) ==
    IF "oauth_credentials" \in DOMAIN c THEN c["oauth_credentials"] ELSE EmptyParams

Built == pc \in {"authenticator", "refresh_sent"}

Rejected == pc \in {"ConfigValidationError", "ValueError", "KeyError"}

\* C16: the authenticator of a stream is the direct one when the credentials
\* hold both client_id and client_secret, and the proxy one when they hold
\* refresh_proxy_url and not both client fields; nothing else in the
\* credentials decides the choice.
C16_ModeSelection ==
    pc \in {"authenticator", "refresh_sent", "ValueError"} =>
        LET block == CredentialsOf(config)
        IN  /\ HoldsDirect(block) =>
                Built /\ returned[1].class = "XeroOAuth2Authenticator"
            /\ (HoldsProxy(block) /\ ~HoldsDirect(block)) =>
                Built /\ returned[1].class = "ProxyXeroOAuth2Authenticator"

\* An authenticator has been built from a block that holds the direct fields
\* and the proxy endpoint.
C16_Witness ==
    /\ pc = "authenticator"
    /\ HoldsDirect(CredentialsOf(config)) /\ HoldsProxy(CredentialsOf(config))
    /\ returned[1].class = "XeroOAuth2Authenticator"

\* The configurations of the tests: tenant_id, start_date and a block with
\* only proxy fields or only direct fields, and no top-level client_id,
\* client_secret or refresh_token.
BlockOnlyConfig ==
    /\ DOMAIN config = {"tenant_id", "start_date", "oauth_credentials"}
    /\ \/ /\ DOMAIN config["oauth_credentials"]
               = {"refresh_proxy_url", "refresh_proxy_url_auth", "refresh_token"}
          /\ HoldsProxy(config["oauth_credentials"])
       \/ /\ DOMAIN config["oauth_credentials"]
               = {"client_id", "client_secret", "refresh_token"}
          /\ HoldsDirect(config["oauth_credentials"])

\* C17: constructing the tap with such a configuration succeeds, and its
\* streams get the authenticator built from the block.
C17_BlockOnlyConfigAccepted ==
    (config # None /\ BlockOnlyConfig) =>
        /\ ~Rejected
        /\ Built => returned[1] = authenticator(config["oauth_credentials"])

C19_BothModesRejected ==
    (config # None /\ HoldsDirect(CredentialsOf(config))
                   /\ HoldsProxy(CredentialsOf(config))) =>
        /\ ~Built
        /\ pc \notin {"config", "tap"} => Rejected


(***************************************************************************)
(* The request pipeline (client.py): validate_response and the retry loop. *)
(***************************************************************************)
\* An exception raised by validate_response; the message is the sequence of
\* the pieces its f-string joins.
Raise(class, message) == Some([class |-> class, message |-> message])

\* XeroRateLimitError derives from RetriableAPIError, XeroAPIError from
\* Exception: the retry loop catches the first two only.
IsRetriableAny(exc) == TRUE

IsRetriable(exc) == exc.class \in {"RetriableAPIError", "XeroRateLimitError"}

\* backoff.expo(base, factor, max_value): its n-th value, counted from 0, is
\* factor * base ** n while that is below max_value, and max_value after.
expo(base, factor, max_value, n) ==
    IF factor * base ^ n < max_value THEN factor * base ^ n ELSE max_value

\* A variant that waits the same time before every retry.
backoff_wait_generator_constant(n) == expo(1, 2, 60, n)

\* backoff_wait_generator: backoff.expo(base=2, factor=2, max_value=60)
backoff_wait_generator(n) == expo(2, 2, 60, n)

\* A variant that allows a sixth attempt.
backoff_max_tries_six == 5 + 1

backoff_max_tries == 5

\* A JSON body that is a number and not an object.
JsonNumber(n) == [json_number |-> n]

IsJsonNumber(json) == "json_number" \in DOMAIN json

\* A variant that leaves the raw text out.
ClientErrorMessage_no_text(response) ==
    <<"Client error ", ToString(response.status_code)>> \o
        (IF response.is_json /\ "Message" \in DOMAIN response.json
         THEN <<": ", response.json["Message"]>> ELSE <<>>)

\* The message of a client error: the Message field of a JSON body that has
\* one, nothing for a JSON object without it, the raw text for any other
\* body: one that is not JSON, and one that is JSON but a number, on which
\* the test "Message" in error_data raises TypeError inside the try.
ClientErrorMessage(response) ==
    <<"Client error ", ToString(response.status_code)>> \o
        (IF response.is_json /\ ~IsJsonNumber(response.json)
         THEN IF "Message" \in DOMAIN response.json
              THEN <<": ", response.json["Message"]>> ELSE <<>>
         ELSE <<": ", response.text>>)

validate_response(response) ==
    IF response.status_code = 429
    THEN IF TruthyText(OptGet(response.headers, "Retry-After"))
         THEN Raise("XeroRateLimitError",
                    <<"Rate limit exceeded (429). Retry-After: ",
                      response.headers["Retry-After"]>>)
         ELSE Raise("XeroAPIError", <<"Daily API rate limit exceeded. Cannot retry.">>)
    ELSE IF response.status_code = 503
    THEN Raise("RetriableAPIError", <<"Service unavailable (503). Will retry.">>)
    ELSE IF response.status_code >= 500
    THEN Raise("RetriableAPIError",
               <<"Server error (", ToString(response.status_code), "). Will retry.">>)
    ELSE IF response.status_code = 401
    THEN Raise("RetriableAPIError", <<"Unauthorized (401). Token may need refresh.">>)
    ELSE IF response.status_code >= 400
    THEN Raise("XeroAPIError", ClientErrorMessage(response))
    ELSE None

NoHeaders == [h \in {} |-> ""]

HttpResponse(status_code, headers, is_json, json, text) ==
    [status_code |-> status_code, headers |-> headers,
     is_json |-> is_json, json |-> json, text |-> text]

JsonResponse(status_code, headers, json) ==
    HttpResponse(status_code, headers, TRUE, json, "")

\* The answers the API may give to an attempt.
Offered ==
    {JsonResponse(200, NoHeaders, [Status |-> "OK"]),
     JsonResponse(304, NoHeaders, [Status |-> "OK"]),
     JsonResponse(400, NoHeaders, [Type |-> "ValidationException"]),
     JsonResponse(401, NoHeaders, [Title |-> "Unauthorized"]),
     JsonResponse(404, NoHeaders, [Message |-> "Not found"]),
     HttpResponse(400, NoHeaders, TRUE, JsonNumber(5), "5"),
     HttpResponse(404, NoHeaders, FALSE, [Status |-> ""], "<html>Not found</html>"),
     JsonResponse(429, NoHeaders, [Message |-> "Daily limit"]),
     JsonResponse(429, "Retry-After" :> "5", [Status |-> ""]),
     JsonResponse(429, "Retry-After" :> "", [Status |-> ""]),
     JsonResponse(500, NoHeaders, [Status |-> ""]),
     JsonResponse(503, NoHeaders, [Status |-> ""]),
     HttpResponse(504, NoHeaders, FALSE, [Status |-> ""], "Gateway Timeout")}

\* The authenticator holds a token that is valid for the whole send.
InitSend ==
    /\ pc = "prepare"
    /\ credentials \in {DirectCredentials, ProxyCredentials}
    /\ refresh_token = Some(credentials.refresh_token)
    /\ access_token = Some(1)
    /\ expires_in = Some(1800)
    /\ last_refreshed = Some(0)
    /\ now = 0
    /\ provider = [issued |-> 1, accepts |-> credentials.refresh_token]
    /\ token_calls = <<>>
    /\ worker = <<>>
    /\ prepared = None
    /\ tries = 0
    /\ attempts = <<>>
    /\ failure = None
    /\ waits = <<>>
    /\ returned = None
    /\ SyncIdle /\ record = None /\ memory = None /\ config = None /\ InstIdle

\* prepare_request: the request is built once, with the Authorization header
\* of the authenticator's token at that time.
PrepareRequest ==
    /\ pc = "prepare"
    /\ is_token_valid
    /\ prepared' = Some([Authorization |-> <<"Bearer", access_token[1]>>])
    /\ tries' = 0
    /\ pc' = "attempt"
    /\ UNCHANGED <<attempts, failure, waits, authVars, allButSend>>

\* One call of the retry loop: the prepared request is sent as it is, the
\* response goes through validate_response, and the loop gives up on an
\* exception it does not catch and on the last try.
Attempt ==
    /\ pc = "attempt"
    /\ tries' = tries + 1
    /\ \E response \in Offered :
          LET raised == validate_response(response)
          IN  /\ attempts' = Append(attempts, [request |-> prepared[1],
                                               response |-> response,
                                               raised |-> raised])
              /\ IF raised = None
                 THEN pc' = "returned" /\ UNCHANGED failure
                 ELSE IF IsRetriable(raised[1]) /\ tries' # backoff_max_tries
                 THEN pc' = "backoff" /\ UNCHANGED failure
                 ELSE pc' = "raised" /\ failure' = raised
    /\ UNCHANGED <<prepared, waits, authVars, allButSend>>

\* The sleep between two tries: the retry loop takes the next value of the
\* wait generator, before jitter.
Backoff ==
    /\ pc = "backoff"
    /\ waits' = Append(waits, backoff_wait_generator(Len(waits)))
    /\ pc' = "attempt"
    /\ UNCHANGED <<prepared, tries, attempts, failure, authVars, allButSend>>

NextSend == PrepareRequest \/ Attempt \/ Backoff

SpecSend == InitSend /\ [][NextSend]_vars

Ended == pc \in {"returned", "raised"}

\* C6: the attempt that follows a 401 carries a token other than the one
\* that was rejected.
C6_RefreshAfter401 ==
    \A i \in 2..Len(attempts) :
        attempts[i - 1].response.status_code = 401
            => attempts[i].request.Authorization # attempts[i - 1].request.Authorization

Outcome(raised) ==
    IF raised = None THEN "Success"
    ELSE IF raised[1].class \in {"RetriableAPIError", "XeroRateLimitError"} THEN "Retryable"
    ELSE "Fatal"

\* The outcome the classification rules give a status code and headers.
Classified(status_code, headers) ==
    IF status_code = 429
    THEN IF "Retry-After" \in DOMAIN headers THEN "Retryable" ELSE "Fatal"
    ELSE IF status_code >= 500 THEN "Retryable"
    ELSE IF status_code = 401 THEN "Retryable"
    ELSE IF status_code >= 400 THEN "Fatal"
    ELSE "Success"

\* C7: validate_response gives every status code and headers the outcome of
\* the rules: 429 with a Retry-After header, whatever its value, Retryable;
\* 429 without, Fatal; 5xx and 401 Retryable; other 4xx Fatal; else Success.
C7_Classification ==
    \A i \in 1..Len(attempts) :
        Outcome(attempts[i].raised) =
            Classified(attempts[i].response.status_code, attempts[i].response.headers)

\* C8: a send makes at most 5 attempts, and a send whose attempts were all
\* Retryable ends after the fifth with the failure of that last attempt.
C8_AtMostFiveAttempts ==
    /\ Len(attempts) <= 5
    /\ tries = Len(attempts)
    /\ (Ended /\ \A i \in 1..Len(attempts) : Outcome(attempts[i].raised) = "Retryable")
          => /\ Len(attempts) = 5
             /\ pc = "raised"
             /\ failure = Last(attempts).raised

\* Five attempts were made, all Retryable and not all alike, and the send has
\* failed.
C8_Witness ==
    /\ pc = "raised"
    /\ Len(attempts) = 5
    /\ \A i \in 1..5 : Outcome(attempts[i].raised) = "Retryable"
    /\ attempts[4].response.status_code = 401
    /\ attempts[5].response.status_code = 503
    /\ failure = Raise("RetriableAPIError", <<"Service unavailable (503). Will retry.">>)

\* A response the rules call Fatal: 429 without Retry-After, or a 4xx other
\* than 401 and 429.
FatalResponse(response) ==
    \/ response.status_code = 429 /\ "Retry-After" \notin DOMAIN response.headers
    \/ /\ response.status_code >= 400 /\ response.status_code < 500
       /\ response.status_code \notin {401, 429}

\* C9: a Fatal outcome ends the send at once, whatever budget remains: the
\* attempt is the last one and the send has failed with its exception.
C9_FatalEndsSend ==
    \A i \in 1..Len(attempts) :
        FatalResponse(attempts[i].response)
            => /\ i = Len(attempts)
               /\ pc = "raised"
               /\ failure = attempts[i].raised
               /\ failure # None /\ failure[1].class = "XeroAPIError"

\* The pieces of the message the send has failed with.
Pieces(message) == {message[i] : i \in 1..Len(message)}

\* What the message of a client error must hold for the response.
MessageCarries(message, response) ==
    /\ ToString(response.status_code) \in Pieces(message)
    /\ (response.is_json /\ "Message" \in DOMAIN response.json)
          => response.json["Message"] \in Pieces(message)
    /\ ~response.is_json => response.text \in Pieces(message)

\* C32 as stated: the message of every Fatal outcome for a 4xx response
\* holds the status code, the Message field of a JSON body and the raw text
\* of a body that is not JSON.
C32_FatalMessageAny4xx ==
    \A i \in 1..Len(attempts) :
        (Outcome(attempts[i].raised) = "Fatal"
            /\ attempts[i].response.status_code \in 400..499)
            => MessageCarries(attempts[i].raised[1].message, attempts[i].response)

\* C32: the message of a Fatal outcome for a 4xx response other than 429
\* holds the status code, the Message field of a JSON body that has one, and
\* the raw text of a body that is not JSON.
C32_FatalMessage ==
    \A i \in 1..Len(attempts) :
        (Outcome(attempts[i].raised) = "Fatal"
            /\ attempts[i].response.status_code \in 400..499
            /\ attempts[i].response.status_code # 429)
            => MessageCarries(attempts[i].raised[1].message, attempts[i].response)

\* A send has failed on a 404 whose body is not JSON, after a retry.
C32_Witness ==
    /\ pc = "raised"
    /\ Len(attempts) = 2
    /\ failure = Raise("XeroAPIError",
                       <<"Client error ", "404", ": ", "<html>Not found</html>">>)

MaxWaitIndex == 8   \* the wait generator is looked at up to this value

\* C31: the first nominal wait of a send is the base delay of 2 seconds,
\* every later one is twice the one before, none exceeds 60 seconds, also
\* beyond the waits a send can reach, where the generator stays at 60; there
\* is one wait before every retry, 4 in a send that uses up its 5 attempts.
C31_BackoffWaits ==
    /\ Len(waits) >= 1 => waits[1] = 2
    /\ \A k \in 2..Len(waits) : waits[k] = 2 * waits[k - 1]
    /\ \A k \in 1..Len(waits) : waits[k] <= 60
    /\ \A n \in 0..MaxWaitIndex :
          /\ backoff_wait_generator(n) <= 60
          /\ backoff_wait_generator(n + 1) =
                IF 2 * backoff_wait_generator(n) < 60
                THEN 2 * backoff_wait_generator(n) ELSE 60
    /\ pc = "attempt" /\ tries > 0 => Len(waits) = Len(attempts)
    /\ Ended => Len(waits) = Len(attempts) - 1
    /\ (pc = "raised" /\ Len(attempts) = backoff_max_tries) => Len(waits) = 4

\* A send has used up its attempts after waits of 2, 4, 8 and 16 seconds.
C31_Witness ==
    /\ pc = "raised"
    /\ Len(attempts) = 5
    /\ waits = <<2, 4, 8, 16>>

\* A Fatal response came on the second attempt, with three tries left.
C9_Witness ==
    /\ pc = "raised"
    /\ Len(attempts) = 2
    /\ tries < backoff_max_tries - 1
    /\ FatalResponse(attempts[2].response)
    /\ Outcome(attempts[1].raised) = "Retryable"


(***************************************************************************)
(* The date normalisation (client.py).  A JSON value is a record with one  *)
(* field that names its type: str, int, none, dict or list.                *)
(***************************************************************************)
JsonStr(chars) == [str |-> chars]
JsonInt(n) == [int |-> n]
JsonNone == [none |-> TRUE]
JsonDict(f) == [dict |-> f]
JsonList(items) == [list |-> items]

\* What stands for a call that raised instead of returning.
Raised == [raise |-> "ValueError"]

IsStr(v) == "str" \in DOMAIN v
IsDict(v) == "dict" \in DOMAIN v
IsList(v) == "list" \in DOMAIN v

Digit == {"0", "1", "2", "3", "4", "5", "6", "7", "8", "9"}

DigitValue(c) ==
    CASE c = "0" -> 0 [] c = "1" -> 1 [] c = "2" -> 2 [] c = "3" -> 3 [] c = "4" -> 4
      [] c = "5" -> 5 [] c = "6" -> 6 [] c = "7" -> 7 [] c = "8" -> 8 [] c = "9" -> 9

DigitChar(n) == CHOOSE c \in Digit : DigitValue(c) = n

DatePrefix == <<"/","D","a","t","e","(">>

\* The end of the longest run of digits of s that starts at i (i - 1 if s[i]
\* is no digit).
DigitRunEnd(s, i) ==
    CHOOSE j \in (i - 1)..Len(s) :
        /\ \A k \in i..j : s[k] \in Digit
        /\ (j = Len(s) \/ s[j + 1] \notin Digit)

\* _dotnet_date_pattern, \/Date\((-?\d+)([\+\-]\d{4})?\)\/, tried at
\* position i of s: whether it matches, and its first group.
DotnetMatchAt(s, i) ==
    LET p      == i + Len(DatePrefix)
        neg    == p <= Len(s) /\ s[p] = "-"
        first  == IF neg THEN p + 1 ELSE p
        last   == DigitRunEnd(s, first)
        k      == last + 1
        offset == /\ k + 4 <= Len(s)
                  /\ s[k] \in {"+", "-"}
                  /\ \A d \in 1..4 : s[k + d] \in Digit
        close  == IF offset THEN k + 5 ELSE k
    IN  IF /\ StartsWithAt(s, i, DatePrefix)
           /\ last >= first
           /\ StartsWithAt(s, close, <<")", "/">>)
        THEN [matched |-> TRUE, negative |-> neg, digits |-> SubSeq(s, first, last)]
        ELSE [matched |-> FALSE, negative |-> FALSE, digits |-> <<>>]

\* pattern.match(s): the pattern at the start of s.
DotnetMatch(s) == DotnetMatchAt(s, 1)

RECURSIVE StripZeros(_)
StripZeros(ds) ==
    IF Len(ds) > 1 /\ Head(ds) = "0" THEN StripZeros(Tail(ds)) ELSE ds

RECURSIVE DigitsToInt(_)
DigitsToInt(ds) ==
    IF ds = <<>> THEN 0
    ELSE 10 * DigitsToInt(SubSeq(ds, 1, Len(ds) - 1)) + DigitValue(ds[Len(ds)])

\* a < b for two digit strings of the same length.
DigitsLess(a, b) ==
    \E i \in 1..Len(a) :
        /\ \A k \in 1..(i - 1) : a[k] = b[k]
        /\ DigitValue(a[i]) < DigitValue(b[i])

\* The first millisecond value datetime.fromtimestamp refuses: the start of
\* the year 10000.
FirstMillisOutOfRange == <<"2","5","3","4","0","2","3","0","0","8","0","0","0","0","0">>

\* The first integer that int / 1000.0 cannot convert to a float
\* (OverflowError): 2^1024 - 2^970, in decimal digits.
FirstIntNotFloat ==
    <<"1","7","9","7","6","9","3","1","3","4","8","6","2","3","1","5",
      "8","0","7","9","3","7","2","8","9","7","1","4","0","5","3","0",
      "3","4","1","5","0","7","9","9","3","4","1","3","2","7","1","0",
      "0","3","7","8","2","6","9","3","6","1","7","3","7","7","8","9",
      "8","0","4","4","4","9","6","8","2","9","2","7","6","4","7","5",
      "0","9","4","6","6","4","9","0","1","7","9","7","7","5","8","7",
      "2","0","7","0","9","6","3","3","0","2","8","6","4","1","6","6",
      "9","2","8","8","7","9","1","0","9","4","6","5","5","5","5","4",
      "7","8","5","1","9","4","0","4","0","2","6","3","0","6","5","7",
      "4","8","8","6","7","1","5","0","5","8","2","0","6","8","1","9",
      "0","8","9","0","2","0","0","0","7","0","8","3","8","3","6","7",
      "6","2","7","3","8","5","4","8","4","5","8","1","7","7","1","1",
      "5","3","1","7","6","4","4","7","5","7","3","0","2","7","0","0",
      "6","9","8","5","5","5","7","1","3","6","6","9","5","9","6","2",
      "2","8","4","2","9","1","4","8","1","9","8","6","0","8","3","4",
      "9","3","6","4","7","5","2","9","2","7","1","9","0","7","4","1",
      "6","8","4","4","4","3","6","5","5","1","0","7","0","4","3","4",
      "2","7","1","1","5","5","9","6","9","9","5","0","8","0","9","3",
      "0","4","2","8","8","0","1","7","7","9","0","4","1","7","4","4",
      "9","7","7","9","2">>

\* a <= b does not hold for the integers written ds and limit: ds >= limit.
AtLeast(ds, limit) ==
    \/ Len(ds) > Len(limit)
    \/ Len(ds) = Len(limit) /\ ~DigitsLess(ds, limit)

OutOfRange(ds) == AtLeast(ds, FirstMillisOutOfRange)

FloatOverflow(ds) == AtLeast(ds, FirstIntNotFloat)

\* n written with at least width digits.
RECURSIVE Pad(_, _)
Pad(n, width) ==
    IF width <= 1 /\ n < 10 THEN <<DigitChar(n)>>
    ELSE Pad(n \div 10, width - 1) \o <<DigitChar(n % 10)>>

\* The calendar date of the day that is days after 1970-01-01.
CivilFromDays(days) ==
    LET z   == days + 719468
        era == z \div 146097
        doe == z - era * 146097
        yoe == (doe - doe \div 1460 + doe \div 36524 - doe \div 146096) \div 365
        doy == doe - (365 * yoe + yoe \div 4 - yoe \div 100)
        mp  == (5 * doy + 2) \div 153
        m   == IF mp < 10 THEN mp + 3 ELSE mp - 9
    IN  [year  |-> yoe + era * 400 + (IF m <= 2 THEN 1 ELSE 0),
         month |-> m,
         day   |-> doy - (153 * mp + 2) \div 5 + 1]

\* datetime.fromtimestamp(seconds + millis / 1000, tz=utc)
\*     .strftime("%Y-%m-%dT%H:%M:%S.%fZ")
FormatUtc(seconds, millis) ==
    LET date == CivilFromDays(seconds \div 86400)
        rest == seconds % 86400
    IN  Pad(date.year, 4) \o <<"-">> \o Pad(date.month, 2) \o <<"-">> \o Pad(date.day, 2)
        \o <<"T">> \o Pad(rest \div 3600, 2) \o <<":">> \o Pad((rest % 3600) \div 60, 2)
        \o <<":">> \o Pad(rest % 60, 2) \o <<".">> \o Pad(millis * 1000, 6) \o <<"Z">>

\* parse_dotnet_date that clamps a negative value to "/Date(0)/" and leaves
\* it in the epoch form.
parse_dotnet_date_clamped_epoch_form(date_str) ==
    IF date_str = <<>> THEN JsonNone
    ELSE LET match == DotnetMatch(date_str)
             ds    == StripZeros(match.digits)
             n     == Len(ds)
         IN  IF match.matched
             THEN IF FloatOverflow(ds) THEN Raised
                  ELSE IF match.negative THEN JsonStr(DatePrefix \o <<"0", ")", "/">>)
                  ELSE IF OutOfRange(ds) THEN Raised
                  ELSE JsonStr(FormatUtc(DigitsToInt(SubSeq(ds, 1, n - 3)),
                                     DigitsToInt(SubSeq(ds, IF n > 3 THEN n - 2 ELSE 1, n))))
             ELSE IF Contains(date_str, <<"T">>) THEN JsonStr(date_str) ELSE JsonNone

\* parse_dotnet_date: a JSON value, or Raised.  The seconds are computed
\* exactly: below 2^31 seconds the float timestamp_ms / 1000.0 rounds to the
\* same microsecond, and the strings fed to the model stay below it or raise.
parse_dotnet_date(date_str) ==
    IF date_str = <<>> THEN JsonNone
    ELSE LET match == DotnetMatch(date_str)
             ds    == StripZeros(match.digits)
             n     == Len(ds)
         IN  IF match.matched
             THEN IF FloatOverflow(ds) THEN Raised
                  ELSE IF match.negative THEN JsonStr(FormatUtc(0, 0))
                  ELSE IF OutOfRange(ds) THEN Raised
                  ELSE JsonStr(FormatUtc(DigitsToInt(SubSeq(ds, 1, n - 3)),
                                     DigitsToInt(SubSeq(ds, IF n > 3 THEN n - 2 ELSE 1, n))))
             ELSE IF Contains(date_str, <<"T">>) THEN JsonStr(date_str) ELSE JsonNone

\* transform_dotnet_dates, with Raised left where parse_dotnet_date raised.
RECURSIVE Transformed(_)
Transformed(rec) ==
    IF ~IsDict(rec) THEN rec
    ELSE JsonDict([key \in DOMAIN rec.dict |->
            LET value == rec.dict[key]
            IN  IF IsStr(value) /\ Contains(value.str, DatePrefix)
                THEN parse_dotnet_date(value.str)
                ELSE IF IsDict(value) THEN Transformed(value)
                ELSE IF IsList(value)
                THEN JsonList([i \in 1..Len(value.list) |->
                              IF IsDict(value.list[i]) THEN Transformed(value.list[i])
                              ELSE value.list[i]])
                ELSE value])

RECURSIVE HasRaised(_)
HasRaised(v) ==
    \/ v = Raised
    \/ IsDict(v) /\ \E key \in DOMAIN v.dict : HasRaised(v.dict[key])
    \/ IsList(v) /\ \E i \in 1..Len(v.list) : HasRaised(v.list[i])

\* transform_dotnet_dates: the transformed record, or Raised when a call of
\* parse_dotnet_date inside it raised.
transform_dotnet_dates(rec) ==
    IF HasRaised(Transformed(rec)) THEN Raised ELSE Transformed(rec)


\* The same call on Python objects.  An object or an array lives at an address
\* of the heap and holds scalars and references; a scalar is a value.
Ref(address) == [ref |-> address]
IsRef(v) == "ref" \in DOMAIN v

\* json.loads: the value v laid out on the heap h, children first.
RECURSIVE Store(_, _), StoreFields(_, _, _, _), StoreItems(_, _, _, _)
Store(v, h) ==
    IF IsDict(v)
    THEN LET r == StoreFields(v.dict, DOMAIN v.dict, h, <<>>)
         IN  [heap |-> Append(r.heap, JsonDict(r.out)), val |-> Ref(Len(r.heap) + 1)]
    ELSE IF IsList(v)
    THEN LET r == StoreItems(v.list, 1, h, <<>>)
         IN  [heap |-> Append(r.heap, JsonList(r.out)), val |-> Ref(Len(r.heap) + 1)]
    ELSE [heap |-> h, val |-> v]

StoreFields(f, keys, h, out) ==
    IF keys = {} THEN [heap |-> h, out |-> out]
    ELSE LET key == CHOOSE k \in keys : TRUE
             r   == Store(f[key], h)
         IN  StoreFields(f, keys \ {key}, r.heap, (key :> r.val) @@ out)

StoreItems(items, i, h, out) ==
    IF i > Len(items) THEN [heap |-> h, out |-> out]
    ELSE LET r == Store(items[i], h)
         IN  StoreItems(items, i + 1, r.heap, Append(out, r.val))

\* The JSON value that the value v stands for on the heap h.
RECURSIVE Load(_, _)
Load(h, v) ==
    IF ~IsRef(v) THEN v
    ELSE LET object == h[v.ref]
         IN  IF IsDict(object)
             THEN JsonDict([key \in DOMAIN object.dict |-> Load(h, object.dict[key])])
             ELSE JsonList([i \in 1..Len(object.list) |-> Load(h, object.list[i])])

\* transformed = record: the dict the results are written to is the argument.
NewDict_the_argument(h, rec) == [heap |-> h, val |-> rec]

\* transformed = {}: the dict the results are written to is a new object.
NewDict(h, rec) == [heap |-> Append(h, JsonDict(<<>>)), val |-> Ref(Len(h) + 1)]

\* transformed[key] = val
SetItem(h, transformed, key, val) ==
    [h EXCEPT ![transformed.ref] = JsonDict((key :> val) @@ h[transformed.ref].dict)]

\* transform_dotnet_dates on the heap: the heap after the call, the value
\* returned, and whether a call of parse_dotnet_date inside it raised.
RECURSIVE transform_in_memory(_, _), transform_fields(_, _, _, _), transform_value(_, _), transform_items(_, _, _, _)
transform_in_memory(h, rec) ==
    IF ~(IsRef(rec) /\ IsDict(h[rec.ref])) THEN [heap |-> h, val |-> rec, raised |-> FALSE]
    ELSE LET transformed == NewDict(h, rec)
             r == transform_fields(transformed.heap, rec, DOMAIN h[rec.ref].dict,
                                   transformed.val)
         IN  [heap |-> r.heap, val |-> transformed.val, raised |-> r.raised]

\* for key, value in record.items(): ...
transform_fields(h, rec, keys, transformed) ==
    IF keys = {} THEN [heap |-> h, raised |-> FALSE]
    ELSE LET key == CHOOSE k \in keys : TRUE
             r   == transform_value(h, h[rec.ref].dict[key])
         IN  IF r.raised THEN [heap |-> r.heap, raised |-> TRUE]
             ELSE transform_fields(SetItem(r.heap, transformed, key, r.val), rec,
                                   keys \ {key}, transformed)

\* The right-hand side of the assignment to transformed[key].
transform_value(h, value) ==
    IF IsStr(value) /\ Contains(value.str, DatePrefix)
    THEN LET parsed == parse_dotnet_date(value.str)
         IN  [heap |-> h, val |-> parsed, raised |-> parsed = Raised]
    ELSE IF IsRef(value) /\ IsDict(h[value.ref]) THEN transform_in_memory(h, value)
    ELSE IF IsRef(value) /\ IsList(h[value.ref])
    THEN LET r == transform_items(h, value, 1, <<>>)
         IN  [heap |-> Append(r.heap, JsonList(r.out)), val |-> Ref(Len(r.heap) + 1),
              raised |-> r.raised]
    ELSE [heap |-> h, val |-> value, raised |-> FALSE]

\* [transform(item) if isinstance(item, dict) else item for item in value]
transform_items(h, value, i, out) ==
    IF i > Len(h[value.ref].list) THEN [heap |-> h, out |-> out, raised |-> FALSE]
    ELSE LET item == h[value.ref].list[i]
             r    == IF IsRef(item) /\ IsDict(h[item.ref]) THEN transform_in_memory(h, item)
                     ELSE [heap |-> h, val |-> item, raised |-> FALSE]
         IN  IF r.raised THEN [heap |-> r.heap, out |-> out, raised |-> TRUE]
             ELSE transform_items(r.heap, value, i + 1, Append(out, r.val))

\* The records handed to transform_dotnet_dates.
DotnetDate(inner) == DatePrefix \o inner \o <<")", "/">>

MaxDepth == 2   \* objects and arrays nest this deep below the record

Strings ==
    {DotnetDate(<<"1","4","1","9","9","3","7","2","0","0","0","0","0","+","0","0","0","0">>),
     DotnetDate(<<"1","4","1","9","9","3","7","2","0","0","1","2","3">>),
     DotnetDate(<<"0">>),
     DotnetDate(<<"-","1","0","0","0">>),
     DotnetDate(<<"8","6","3","9","9","9","9","9","-","0","5","0","0">>),
     DotnetDate(<<"9","9","9","9","9","9","9","9","9","9","9","9","9","9","9","9","9">>),
     DotnetDate(<<"-","1">>),
     DotnetDate(<<"-","9","9","9","9","9","9","9","9","9","9","9","9","9","9","9","9","9">>),
     DotnetDate(<<"-">> \o FirstIntNotFloat),
     DotnetDate(<<"0">>) \o <<"t","a","i","l">>,
     <<"x">> \o DotnetDate(<<"0">>),
     <<"T">> \o DotnetDate(<<"0">>),
     DotnetDate(<<"a","b","c">>),
     DotnetDate(<<"0","+","0","0">>),
     <<"h","e","l","l","o">>,
     <<"2","0","2","0","-","0","1","-","0","1","T","0","0",":","0","0",":","0","0">>,
     <<>>}

Scalars == {JsonStr(chars) : chars \in Strings} \cup {JsonInt(7), JsonNone}

\* The values that nest at most depth deep.
RECURSIVE Values(_)
Values(depth) ==
    IF depth = 0 THEN Scalars
    ELSE LET inner == Values(depth - 1)
         IN  inner \cup {JsonDict("Inner" :> v) : v \in inner}
                   \cup {JsonList(<<v>>) : v \in inner}
                   \cup {JsonList(<<>>)}

InputRecords ==
    {JsonDict(("Value" :> v) @@ ("UpdatedDateUTC" :> d)) :
        v \in Values(MaxDepth),
        d \in {JsonStr(DotnetDate(<<"1","4","1","9","9","3","7","2","0","0","0","0","0","+","0","0","0","0">>)), JsonNone}}

InitDates ==
    /\ pc = "call"
    /\ record \in InputRecords
    /\ memory = Store(record, <<>>) @@ [raised |-> FALSE]
    /\ returned = None
    /\ SyncIdle /\ AuthIdle /\ SendIdle /\ config = None /\ InstIdle

\* post_process: the record goes through transform_dotnet_dates.
post_process ==
    /\ pc = "call"
    /\ returned' = transform_dotnet_dates(record)
    /\ memory' = transform_in_memory(memory.heap, memory.val)
    /\ pc' = IF returned' = Raised THEN "raised" ELSE "returned"
    /\ UNCHANGED <<record, allButRecord>>

NextDates == post_process

SpecDates == InitDates /\ [][NextDates]_vars

\* The epoch-date pattern occurs somewhere in the text s.
HasEpochDate(s) == \E i \in 1..Len(s) : DotnetMatchAt(s, i).matched

\* A string at any depth of the value v holds the epoch-date pattern.
RECURSIVE HasResidualDate(_)
HasResidualDate(v) ==
    \/ IsStr(v) /\ HasEpochDate(v.str)
    \/ IsDict(v) /\ \E key \in DOMAIN v.dict : HasResidualDate(v.dict[key])
    \/ IsList(v) /\ \E i \in 1..Len(v.list) : HasResidualDate(v.list[i])

\* C10: no string of the record transform_dotnet_dates returns, at any depth,
\* inside objects and inside arrays, holds an epoch-date pattern.
C10_NoResidualDates == pc = "returned" => ~HasResidualDate(returned)

\* C11: transform_dotnet_dates changes nothing but strings that hold the
\* epoch-date pattern: every other string (one that merely contains "/Date("
\* too) and every non-string scalar is returned as it was, and objects keep
\* their keys and arrays their lengths at every level.
RECURSIVE Frame(_, _)
Frame(in, out) ==
    IF IsStr(in) THEN HasEpochDate(in.str) \/ out = in
    ELSE IF IsDict(in)
    THEN /\ IsDict(out)
         /\ DOMAIN out.dict = DOMAIN in.dict
         /\ \A key \in DOMAIN in.dict : Frame(in.dict[key], out.dict[key])
    ELSE IF IsList(in)
    THEN /\ IsList(out)
         /\ Len(out.list) = Len(in.list)
         /\ \A i \in 1..Len(in.list) : Frame(in.list[i], out.list[i])
    ELSE out = in

C11_FrameKept == pc = "returned" => Frame(record, returned)

\* C12: transform_dotnet_dates is total: whatever the record, also one whose
\* epoch-date field carries a very large millisecond value, the call returns
\* a record and never raises.
C12_Total == pc \in {"call", "returned"}

\* The fields of a timestamp text YYYY-MM-DDTHH:MM:SS.ffffffZ.
Field(ts, first, last) == DigitsToInt(SubSeq(ts, first, last))

WellFormed(ts) ==
    /\ Len(ts) = 27
    /\ \A i \in (1..26) \ {5, 8, 11, 14, 17, 20} : ts[i] \in Digit
    /\ ts[5] = "-" /\ ts[8] = "-" /\ ts[11] = "T"
    /\ ts[14] = ":" /\ ts[17] = ":" /\ ts[20] = "." /\ ts[27] = "Z"
    /\ Field(ts, 6, 7) \in 1..12
    /\ Field(ts, 9, 10) \in 1..31
    /\ Field(ts, 12, 13) \in 0..23
    /\ Field(ts, 15, 16) \in 0..59
    /\ Field(ts, 18, 19) \in 0..59

\* The days from 1970-01-01 to the calendar date year-month-day.
DaysFromCivil(year, month, day) ==
    LET y   == IF month <= 2 THEN year - 1 ELSE year
        era == y \div 400
        yoe == y - era * 400
        doy == (153 * (IF month > 2 THEN month - 3 ELSE month + 9) + 2) \div 5 + day - 1
        doe == yoe * 365 + yoe \div 4 - yoe \div 100 + doy
    IN  era * 146097 + doe - 719468

\* The instant a well-formed timestamp names: whole seconds since the epoch,
\* and the microseconds within the second.
SecondsOf(ts) ==
    DaysFromCivil(Field(ts, 1, 4), Field(ts, 6, 7), Field(ts, 9, 10)) * 86400
        + Field(ts, 12, 13) * 3600 + Field(ts, 15, 16) * 60 + Field(ts, 18, 19)

MicrosOf(ts) == Field(ts, 21, 26)

EpochZero ==
    <<"1","9","7","0","-","0","1","-","0","1","T",
      "0","0",":","0","0",":","0","0",".","0","0","0","0","0","0","Z">>

\* The fields of the record whose value is a string the pattern matches.
DateKeys == {key \in DOMAIN record.dict :
                IsStr(record.dict[key]) /\ DotnetMatch(record.dict[key].str).matched}

NegativeKeys == {key \in DateKeys : DotnetMatch(record.dict[key].str).negative}

\* C13: every negative millisecond value normalizes to the timestamp of epoch
\* zero, and no normalized value is malformed or names an instant before the
\* epoch.
C13_NegativeClampsToEpoch ==
    pc # "call" =>
        /\ \A key \in NegativeKeys :
              pc = "returned" /\ returned.dict[key] = JsonStr(EpochZero)
        /\ pc = "returned" =>
              \A key \in DateKeys :
                  /\ IsStr(returned.dict[key])
                  /\ WellFormed(returned.dict[key].str)
                  /\ SecondsOf(returned.dict[key].str) >= 0

\* The millisecond value of a matched field, as whole seconds and the
\* milliseconds within the second.
MillisDigits(key) == StripZeros(DotnetMatch(record.dict[key].str).digits)

InputSeconds(key) ==
    DigitsToInt(SubSeq(MillisDigits(key), 1, Len(MillisDigits(key)) - 3))

InputMillis(key) ==
    LET ds == MillisDigits(key)
    IN  DigitsToInt(SubSeq(ds, IF Len(ds) > 3 THEN Len(ds) - 2 ELSE 1, Len(ds)))

DocumentedDate ==
    DotnetDate(<<"1","4","1","9","9","3","7","2","0","0","0","0","0","+","0","0","0","0">>)

\* A non-negative value of m milliseconds comes out as the well-formed
\* timestamp of the instant m milliseconds after the epoch.
C14_InstantKept ==
    pc = "returned" =>
        \A key \in DateKeys \ NegativeKeys :
            /\ IsStr(returned.dict[key])
            /\ WellFormed(returned.dict[key].str)
            /\ SecondsOf(returned.dict[key].str) = InputSeconds(key)
            /\ MicrosOf(returned.dict[key].str) = 1000 * InputMillis(key)

\* /Date(1419937200000+0000)/ comes out with date 2014-12-30 and time 09:00:00.
C14_DocumentedExample ==
    pc = "returned" =>
        \A key \in DOMAIN record.dict :
            record.dict[key] = JsonStr(DocumentedDate) =>
                /\ IsStr(returned.dict[key])
                /\ SubSeq(returned.dict[key].str, 1, 10)
                       = <<"2","0","1","4","-","1","2","-","3","0">>
                /\ SubSeq(returned.dict[key].str, 12, 19)
                       = <<"0","9",":","0","0",":","0","0">>

\* C14: a non-negative epoch-date value of m milliseconds normalizes to the
\* UTC date and time of the instant m milliseconds after 1970-01-01T00:00:00Z,
\* formatted YYYY-MM-DDTHH:MM:SS.ffffffZ; /Date(1419937200000+0000)/ yields
\* date 2014-12-30 and time 09:00:00.
C14_UtcInstant == C14_InstantKept /\ C14_DocumentedExample

\* The objects of the record as they were when the call began.
Argument == Store(record, <<>>)

\* A second call on the same record, made after the first.
SecondCall == transform_in_memory(memory.heap, Argument.val)

\* C34: transform_dotnet_dates is pure.  After the call, whether it returned
\* or raised, the record passed to it and every object and array inside it
\* are what they were before; the value it returned is the transformed
\* record; and a second call on the record gives an equal result.
C34_Pure ==
    pc \in {"returned", "raised"} =>
        /\ \A address \in 1..Len(Argument.heap) :
               memory.heap[address] = Argument.heap[address]
        /\ Load(memory.heap, Argument.val) = record
        /\ memory.raised = (returned = Raised)
        /\ ~memory.raised => Load(memory.heap, memory.val) = returned
        /\ SecondCall.raised = memory.raised
        /\ ~memory.raised =>
               Load(SecondCall.heap, SecondCall.val) = Load(memory.heap, memory.val)

\* A record with a date of its own, and with an array that holds an object
\* that holds a date, has been transformed: the call wrote new objects.
C34_Witness ==
    /\ pc = "returned"
    /\ IsStr(record.dict["UpdatedDateUTC"])
    /\ IsList(record.dict["Value"])
    /\ returned.dict["Value"] # record.dict["Value"]
    /\ returned.dict["UpdatedDateUTC"] # record.dict["UpdatedDateUTC"]
    /\ Len(memory.heap) = Len(Argument.heap) + 3

\* The callers that are inside update_access_token.
Refreshing == {w \in Workers : worker[w].pc \in {"refreshing", "in_flight"}}

\* C35: a proxy-mode refresh that fails leaves the token state as it was
\* before the call.  No step taken while a caller is inside
\* update_access_token, other than the one that ends the call with success,
\* changes access_token, expires_in or last_refreshed: the step that ends it
\* with an exception changes none of them.
C35_FailedRefreshKeepsToken ==
    [][\A w \in Refreshing :
          (IsProxy /\ worker'[w].pc # "authorized") =>
              UNCHANGED <<access_token, expires_in, last_refreshed>>]_vars

\* A proxy-mode refresh has failed while a token obtained before it was
\* cached, and that token is still there.
C35_Witness ==
    /\ pc = "auth" /\ IsProxy
    /\ access_token # None /\ last_refreshed # None
    /\ \E w \in Failed : worker[w].request_time > last_refreshed[1]

\* C36: transform_dotnet_dates is idempotent: applied to the record it
\* returned, it returns that record again.
C36_Idempotent == pc = "returned" => transform_dotnet_dates(returned) = returned

\* The call has rewritten a date inside a nested object of the record.
C36_Witness ==
    /\ pc = "returned"
    /\ IsDict(record.dict["Value"])
    /\ returned.dict["Value"] # record.dict["Value"]
    /\ transform_dotnet_dates(returned) = returned

====
